---- MODULE Spec2Model ----
(***************************************************************************)
(* Model of the NeoNet go-consensus node: the hash-chained ledger          *)
(* (Blockchain), the transport / gossip / HTTP handlers that feed it, and  *)
(* the PBFT-lite vote handlers.                                            *)
(*                                                                         *)
(* Granularity: one step runs one goroutine from one blocking point (a     *)
(* message read, mu.Lock, mu.RLock) to the next.                           *)
(*                                                                         *)
(* Digests and signatures are symbolic terms: sha256 over the formatted    *)
(* record is the tuple of the formatted fields (collision free), an        *)
(* ed25519 signature is the pair <<public key, message>>.  The leading     *)
(* nibbles of a digest are a fixed function of the record (Weight).        *)
(***************************************************************************)
EXTENDS Integers, Sequences, FiniteSets, Bags, TLC

\* ---------------------------------------------------------------- bounds
MaxGoroutines == 2      \* handler goroutines alive at once
MaxChain      == 2      \* longest chain a peer sends or a file holds
NibbleBase    == 2      \* size of the digest alphabet (16 in sha256 hex)
MaxSeq        == 1      \* sequence numbers 1..MaxSeq in agreement messages
MaxVotes      == 6      \* agreement requests served
MaxProposals  == 2      \* calls of proposeBlockToValidators
MaxInjected   == 1      \* PrePrepare requests that come from outside the node
MaxLeaderSeq  == 7      \* sequence numbers 0..MaxLeaderSeq in leader checks
MaxView       == 1      \* views 0..MaxView in leader checks
MaxRequests   == 3      \* /pbft/preprepare requests served
MaxReplies    == 1      \* peerList replies written
MaxFile       == 5      \* longest array chain_store.json holds
MaxConns      == 3      \* connections opened between the nodes

\* ------------------------------------------------------ program constants
difficulty == 2
pbftView   == 0

Times      == {0}                \* time.Now(), to the second of RFC3339
TxData     == {"tx"}

\* validators.json of the run, the identities that send votes, the block hashes
\* and views votes name, and the addresses that connect
Roster    == <<"v1", "v2", "v3", "v4">>
Voters    == {Roster[i] : i \in 1..Len(Roster)} \cup {"x"}
Hashes    == {"h1", "h2"}
Seqs      == 1..MaxSeq
Views     == {0}
PeerAddrs == {"p1", "p2"}

\* ------------------------------------------------------------ strings
EmptyStr == <<>>                               \* "" in a hash or signature field
JunkHash == <<-1, 0, "junk", <<>>, 0>>         \* a hex string that is no digest of the model
NodeKey  == "nodekey"                          \* keys/node_priv.hex
PeerKey  == "peerkey"                          \* a peer's signing key

\* ------------------------------------------------------------ Block
NilBlock ==
  [PubKey |-> "", Signature |-> EmptyStr, Index |-> -1, Timestamp |-> 0,
   Data |-> "", PrevHash |-> EmptyStr, Hash |-> EmptyStr, Nonce |-> 0]

calculateHash(b) == <<b.Index, b.Timestamp, b.Data, b.PrevHash, b.Nonce>>

\* numeric value of the leading nibbles of a digest
Weight(h) == h[1] + h[2] + h[5]

stringsRepeat(count) == IF count <= 0 THEN 0 ELSE NibbleBase ^ count

\* h[:difficulty] == stringsRepeat("0", difficulty)
HasZeroPrefix(h) == Weight(h) % stringsRepeat(difficulty) = 0

RECURSIVE mineFrom(_, _)
mineFrom(b, n) ==
  LET c == [b EXCEPT !.Nonce = n]
      h == calculateHash(c)
  IN  IF HasZeroPrefix(h) THEN [c EXCEPT !.Hash = h] ELSE mineFrom(b, n + 1)

mine(b) == mineFrom(b, b.Nonce + 1)

\* ed25519
Sign(priv, msg)        == <<priv, msg>>
Verify(pub, msg, sig)  == sig = <<pub, msg>>

SignBlock(b, priv) ==
  [b EXCEPT !.Signature = Sign(priv, calculateHash(b)), !.PubKey = priv]

\* a variant that tests the two fields for presence and skips ed25519.Verify
VerifyBlockSignaturePresenceOnly(b) == b.Signature # EmptyStr /\ b.PubKey # ""

VerifyBlockSignature(b) ==
  IF b.Signature = EmptyStr \/ b.PubKey = "" THEN FALSE
  ELSE Verify(b.PubKey, calculateHash(b), b.Signature)

GenesisBlock(t) ==
  LET gen == [NilBlock EXCEPT !.Index = 0, !.Timestamp = t, !.Data = "genesis",
                              !.PrevHash = EmptyStr, !.Nonce = 0]
  IN  [gen EXCEPT !.Hash = calculateHash(gen)]

\* bc.chain = append(bc.chain, gen)
CreateGenesis(ch, t) == Append(ch, GenesisBlock(t))

\* the block GenerateBlock builds on the snapshot `latest` (NilBlock: empty chain)
GenerateBlock(latest, data, t) ==
  LET idx  == IF latest = NilBlock THEN 1 ELSE latest.Index + 1
      prev == IF latest = NilBlock THEN EmptyStr ELSE latest.Hash
  IN  mine([NilBlock EXCEPT !.Index = idx, !.Timestamp = t, !.Data = data,
                            !.PrevHash = prev, !.Nonce = 0])

LatestOf(ch) == IF Len(ch) = 0 THEN NilBlock ELSE ch[Len(ch)]

\* the body of AddBlock once Latest() has returned: <<result, chain>>
AddBlockBody(ch, b) ==
  LET latest == LatestOf(ch)
  IN  IF latest # NilBlock /\ b.Index # latest.Index + 1 THEN <<FALSE, ch>>
      ELSE IF latest # NilBlock /\ b.PrevHash # latest.Hash THEN <<FALSE, ch>>
      ELSE IF latest # NilBlock /\ calculateHash(b) # b.Hash THEN <<FALSE, ch>>
      ELSE <<TRUE, Append(ch, b)>>

\* the validation loop of ReplaceChain and LoadFromFile: first bad position, 0 if none
FirstInvalid(arr) ==
  LET bad == {i \in 2..Len(arr) :
                arr[i].PrevHash # arr[i-1].Hash \/ calculateHash(arr[i]) # arr[i].Hash}
  IN  IF bad = {} THEN 0 ELSE CHOOSE i \in bad : \A j \in bad : i <= j

\* a variant whose length test is < where ReplaceChain has <=
ReplaceChainBodyStrictLess(ch, newChain) ==
  IF Len(newChain) < Len(ch) THEN <<FALSE, ch>>
  ELSE IF FirstInvalid(newChain) # 0 THEN <<FALSE, ch>>
  ELSE <<TRUE, newChain>>

\* the body of ReplaceChain under the lock: <<result, chain>>
ReplaceChainBody(ch, newChain) ==
  IF Len(newChain) <= Len(ch) THEN <<FALSE, ch>>
  ELSE IF FirstInvalid(newChain) # 0 THEN <<FALSE, ch>>
  ELSE <<TRUE, newChain>>

\* the first pair (i-1, i) of the validation loop that has a nil entry, 0 if none
FirstNil(arr) ==
  LET nils == {i \in 2..Len(arr) : arr[i] = NilBlock \/ arr[i-1] = NilBlock}
  IN  IF nils = {} THEN 0 ELSE CHOOSE i \in nils : \A j \in nils : i <= j

\* curr.PrevHash and prev.Hash dereference a nil entry when the loop of
\* ReplaceChain gets to it: past the length test, with every earlier pair valid
ReplaceChainPanics(ch, newChain) ==
  /\ Len(newChain) > Len(ch)
  /\ FirstNil(newChain) # 0
  /\ FirstInvalid(SubSeq(newChain, 1, FirstNil(newChain) - 1)) = 0

\* a variant that assigns the array before it validates it
LoadFromFileBodyAssignFirst(ch, file) ==
  IF ~file.exists THEN <<-1, ch>>
  ELSE IF ~file.whole THEN <<-1, ch>>
  ELSE IF Len(file.arr) = 0 THEN <<-1, ch>>
  ELSE IF FirstInvalid(file.arr) # 0 THEN <<FirstInvalid(file.arr) - 1, file.arr>>
  ELSE <<0, file.arr>>

\* LoadFromFile: <<error position (0: nil error, -1: read, decode or empty error), chain>>
LoadFromFileBody(ch, file) ==
  IF ~file.exists THEN <<-1, ch>>
  ELSE IF ~file.whole THEN <<-1, ch>>
  ELSE IF Len(file.arr) = 0 THEN <<-1, ch>>
  ELSE IF FirstInvalid(file.arr) # 0 THEN <<FirstInvalid(file.arr) - 1, ch>>
  ELSE <<0, file.arr>>

\* --------------------------------------------------- what peers can send
Kinds == {"good", "unsigned", "forged", "unmined", "gap", "badlink", "badhash"}

\* the kinds a `block` message is drawn from
BlockKinds == {"good", "unsigned", "forged", "gap"}

\* a block a peer builds on `prev`, deviating from a sealed, signed block in one respect
PeerBlock(prev, kind, data) ==
  LET idx    == IF kind = "gap" THEN prev.Index + 2 ELSE prev.Index + 1
      link   == IF kind = "badlink" THEN JunkHash ELSE prev.Hash
      raw    == [NilBlock EXCEPT !.Index = idx, !.Timestamp = 0, !.Data = data,
                                 !.PrevHash = link, !.Nonce = 0]
      sealed == mine(raw)
      weak   == LET c == [raw EXCEPT !.Nonce = sealed.Nonce + 1]
                IN  [c EXCEPT !.Hash = calculateHash(c)]
      hashed == IF kind = "unmined" THEN weak
                ELSE IF kind = "badhash" THEN [sealed EXCEPT !.Hash = JunkHash]
                ELSE sealed
  IN  IF kind = "unsigned" THEN hashed
      ELSE IF kind = "forged"
           THEN [hashed EXCEPT !.Signature = Sign(PeerKey, JunkHash), !.PubKey = PeerKey]
      ELSE SignBlock(hashed, PeerKey)

\* the chains a peer can send: the peer's genesis, then sealed and signed blocks,
\* with at most one block that deviates
RECURSIVE PeerChains(_)
PeerChains(n) ==
  IF n <= 1 THEN {<<GenesisBlock(0)>>}
  ELSE LET shorter == {s \in PeerChains(n - 1) : Len(s) = n - 1}
           clean(s) == \A i \in 2..Len(s) : \E d \in TxData : s[i] = PeerBlock(s[i-1], "good", d)
       IN  PeerChains(n - 1) \cup
           {Append(c, PeerBlock(c[Len(c)], k, d)) :
              c \in {s \in shorter : clean(s)}, k \in Kinds, d \in TxData} \cup
           {Append(c, PeerBlock(c[Len(c)], "good", d)) :
              c \in {s \in shorter : ~clean(s)}, d \in TxData}

Candidates == PeerChains(MaxChain)

\* JSON arrays in which one entry is null
NullChains ==
  {[i \in 1..Len(c) |-> IF i = k THEN NilBlock ELSE c[i]] :
     c \in {x \in Candidates : FirstInvalid(x) = 0}, k \in 1..MaxChain} \cup
  {Append(c, NilBlock) : c \in {x \in Candidates : FirstInvalid(x) = 0}}

\* chain_store.json at startup: absent, empty, or any array of blocks
Files ==
  {[exists |-> FALSE, arr |-> <<>>, whole |-> TRUE]} \cup
  {[exists |-> TRUE, arr |-> a, whole |-> TRUE] : a \in {<<>>} \cup Candidates}

\* ------------------------------------------------------------ state
VARIABLES
  main,        \* position of main(): "boot" before the chain is loaded, then "serving"
  chain,       \* Blockchain.chain
  mu,          \* Blockchain.mu: TRUE while a goroutine holds it exclusively
  goroutines,  \* bag of the handler goroutines inside a call: position and locals
  last,        \* outcome of the most recent ledger call (what the node logs)
  validators,  \* the list in validators.json (<<>>: no file, or an empty list)
  peers,       \* Node.peers
  prepares,    \* prepares: seq -> voter -> PrepareMsg
  commits,     \* commits: seq -> voter -> CommitMsg
  sent,        \* bag of the CommitMsg posts this node has made to /pbft/commit
  bridge,      \* bag of the commit_block hashes sent to the execution bridge
  served,      \* number of agreement requests served
  pbftSeq,     \* pbftSeq: the next sequence number a proposal gets
  prePrepares, \* prePrepares: seq -> PrePrepare
  proposing,   \* bag of the proposeBlockToValidators calls past pbftMu.Unlock()
  posted,      \* bag of the PrePrepare and PrepareMsg posts this node has made
  votesMap,    \* votesMap: block hash -> voter_pub -> Vote
  threads,     \* bag of the goroutines followed lock by lock: handler, position, locks held
  outbox,      \* bag of the wire messages written to peer connections
  files,       \* the working directory: chain_store.json and chain_store.json.tmp
  net          \* the nodes this node is connected with, and the connections between them

ledger    == <<main, chain, mu, goroutines, last>>
agreement == <<validators, peers, prepares, commits, sent, bridge, served>>
engine    == <<pbftSeq, prePrepares, proposing, posted, votesMap>>
runtime   == <<threads, outbox, files, net>>
vars      == <<ledger, agreement, engine, runtime>>

EmptyMap == [v \in {} |-> 0]

\* a file that does not exist, and a directory without the two chain files
NoFile  == [exists |-> FALSE, arr |-> <<>>, whole |-> TRUE]
NoFiles == [store |-> NoFile, tmp |-> NoFile]

\* a node that is looked at alone: no other node, no connection
NoNet == [cfg |-> <<>>, peers |-> <<>>, chain |-> <<>>, mu |-> <<>>, conns |-> <<>>,
          relayed |-> <<>>]

\* m[k] = v in a Go map
Put(m, k, v) == [x \in DOMAIN m \cup {k} |-> IF x = k THEN v ELSE m[x]]

\* a goroutine at position pc, started by handler via, with its block and payload
Goroutine(pc, via, b, data) == [pc |-> pc, via |-> via, b |-> b, data |-> data]

NoCall == [op |-> "", ok |-> FALSE, n |-> 0, b |-> NilBlock]

\* a message this node writes to a connection: its type is all the model keeps
WireMessage(type) == [Type |-> type]

Running == BagToSet(goroutines)

Go(t)       == goroutines (+) SetToBag({t})
Move(t, u)  == (goroutines (-) SetToBag({t})) (+) SetToBag({u})
Exit(t)     == goroutines (-) SetToBag({t})

\* NewNode: a fresh Blockchain with a genesis block
Init ==
  /\ main = "boot"
  /\ \E t \in Times : chain = CreateGenesis(<<>>, t)
  /\ mu = FALSE
  /\ goroutines = EmptyBag
  /\ last = NoCall
  /\ validators = Roster
  /\ peers = {}
  /\ prepares = [s \in Seqs |-> EmptyMap]
  /\ commits = [s \in Seqs |-> EmptyMap]
  /\ sent = EmptyBag
  /\ bridge = EmptyBag
  /\ served = 0
  /\ pbftSeq = 1
  /\ prePrepares = EmptyMap
  /\ proposing = EmptyBag
  /\ posted = EmptyBag
  /\ votesMap = EmptyMap
  /\ threads = EmptyBag
  /\ outbox = EmptyBag
  /\ files = NoFiles
  /\ net = NoNet

\* main: LoadChainFromFile, and CreateGenesis when it returns an error
Startup ==
  /\ main = "boot"
  /\ ~mu
  /\ \E file \in Files, t \in Times :
       LET r == LoadFromFileBody(chain, file)
       IN  /\ chain' = IF r[1] # 0 THEN CreateGenesis(r[2], t) ELSE r[2]
           /\ last' = [op |-> "LoadFromFile", ok |-> (r[1] = 0), n |-> r[1], b |-> NilBlock]
  /\ main' = "serving"
  /\ UNCHANGED <<mu, goroutines>>
  /\ UNCHANGED agreement
  /\ UNCHANGED engine
  /\ UNCHANGED runtime

\* a message is handled by a goroutine of its own, while there is room for one
Ready == main = "serving" /\ BagCardinality(goroutines) < MaxGoroutines

\* handleConn, case "block": VerifyBlockSignature, then AddBlock
HandleConnBlock ==
  /\ Ready
  /\ \E k \in BlockKinds, d \in TxData :
       LET b == PeerBlock(LatestOf(chain), k, d)
       IN  IF VerifyBlockSignature(b)
           THEN /\ goroutines' = Go(Goroutine("AddBlock", "block", b, ""))
                /\ UNCHANGED last
           ELSE /\ last' = [op |-> "block", ok |-> FALSE, n |-> 0, b |-> b]
                /\ UNCHANGED goroutines
  /\ UNCHANGED <<main, chain, mu>>
  /\ UNCHANGED agreement
  /\ UNCHANGED engine
  /\ UNCHANGED runtime

\* handleBlockMessages: VerifyBlockSignature, then AddBlock
HandleBlockMessages ==
  /\ Ready
  /\ \E k \in BlockKinds, d \in TxData :
       LET b == PeerBlock(LatestOf(chain), k, d)
       IN  IF VerifyBlockSignature(b)
           THEN /\ goroutines' = Go(Goroutine("AddBlock", "gossipBlock", b, ""))
                /\ UNCHANGED last
           ELSE /\ last' = [op |-> "gossipBlock", ok |-> FALSE, n |-> 0, b |-> b]
                /\ UNCHANGED goroutines
  /\ UNCHANGED <<main, chain, mu>>
  /\ UNCHANGED agreement
  /\ UNCHANGED engine
  /\ UNCHANGED runtime

\* handleConn, case "chain": ReplaceChain(cb.Chain)
HandleConnChain ==
  /\ Ready
  /\ goroutines' = Go(Goroutine("ReplaceChain", "chain", NilBlock, ""))
  /\ UNCHANGED <<main, chain, mu, last>>
  /\ UNCHANGED agreement
  /\ UNCHANGED engine
  /\ UNCHANGED runtime

\* handleConn, case "tx": the bridge builds the block, or GenerateBlock does;
\* the block is signed when keys/node_priv.hex can be read (keys: whether it can)
HandleConnTxWith(keys) ==
  /\ Ready
  /\ \E d \in TxData, bridgeOk \in BOOLEAN, key \in keys :
       LET bb == PeerBlock(LatestOf(chain), "unsigned", d)
           nb == IF key THEN SignBlock(bb, NodeKey) ELSE bb
       IN  goroutines' =
             IF bridgeOk
             THEN Go(Goroutine("AddBlock", "tx", nb, d))
             ELSE Go(Goroutine("GenerateBlock", IF key THEN "txSigned" ELSE "tx", NilBlock, d))
  /\ UNCHANGED <<main, chain, mu, last>>
  /\ UNCHANGED agreement
  /\ UNCHANGED engine
  /\ UNCHANGED runtime

\* keys/node_priv.hex may be there or not, message by message
HandleConnTx == HandleConnTxWith(BOOLEAN)

\* handleTxMessages and HandlePostTx: GenerateBlock, then AddBlock
HandleLocalTx ==
  /\ Ready
  /\ \E d \in TxData, v \in {"gossipTx", "postTx"} :
       goroutines' = Go(Goroutine("GenerateBlock", v, NilBlock, d))
  /\ UNCHANGED <<main, chain, mu, last>>
  /\ UNCHANGED agreement
  /\ UNCHANGED engine
  /\ UNCHANGED runtime

\* AddBlock: bc.mu.Lock(), then the call of bc.Latest()
AddBlockLock(t) ==
  /\ t.pc = "AddBlock"
  /\ ~mu
  /\ mu' = TRUE
  /\ goroutines' = Move(t, [t EXCEPT !.pc = "AddBlock.Latest"])
  /\ UNCHANGED <<main, chain, last>>
  /\ UNCHANGED agreement
  /\ UNCHANGED engine
  /\ UNCHANGED runtime

\* Latest: bc.mu.RLock() needs the lock not to be held exclusively, by the caller
\* or by anyone; the caller then runs on to its next blocking point
Latest(t) ==
  /\ t.pc \in {"GenerateBlock", "AddBlock.Latest"}
  /\ ~mu
  /\ IF t.pc = "GenerateBlock"
     THEN /\ \E now \in Times :
               LET nb == GenerateBlock(LatestOf(chain), t.data, now)
                   sb == IF t.via = "txSigned" THEN SignBlock(nb, NodeKey) ELSE nb
               IN  goroutines' = Move(t, [t EXCEPT !.pc = "AddBlock", !.b = sb])
          /\ UNCHANGED <<chain, mu, last>>
     ELSE LET r == AddBlockBody(chain, t.b)
          IN  /\ chain' = r[2]
              /\ mu' = FALSE
              /\ last' = [op |-> "AddBlock", ok |-> r[1], n |-> Len(r[2]), b |-> t.b]
              /\ goroutines' = Exit(t)
  /\ outbox' = IF t.pc = "AddBlock.Latest" /\ t.via = "block" /\ ~AddBlockBody(chain, t.b)[1]
               THEN outbox (+) SetToBag({WireMessage("requestChain")})
               ELSE outbox
  /\ UNCHANGED main
  /\ UNCHANGED agreement
  /\ UNCHANGED engine
  /\ UNCHANGED <<threads, files, net>>

\* cb.Chain of the goroutine's message: a chain of the peer's, a chain in which
\* the peer has put a null, or the nil slice a body that does not decode leaves
Received(t) ==
  IF t.via = "chain" THEN Candidates
  ELSE IF t.via = "nullChain" THEN NullChains
  ELSE {<<>>}

\* ReplaceChain: bc.mu.Lock(), the checks, the assignment, Unlock.  The candidate
\* is the peer's input: it is drawn here, where the ledger first reads it
ReplaceChain(t) ==
  /\ t.pc = "ReplaceChain"
  /\ ~mu
  /\ \E newChain \in Received(t) :
       IF ReplaceChainPanics(chain, newChain)
       THEN /\ main' = "exited"
            /\ goroutines' = EmptyBag
            /\ last' = [op |-> "panic", ok |-> FALSE, n |-> Len(newChain), b |-> NilBlock]
            /\ UNCHANGED chain
       ELSE LET r == ReplaceChainBody(chain, newChain)
            IN  /\ chain' = r[2]
                /\ last' = [op |-> "ReplaceChain", ok |-> r[1], n |-> Len(newChain),
                            b |-> NilBlock]
                /\ goroutines' = Exit(t)
                /\ UNCHANGED main
  /\ UNCHANGED mu
  /\ UNCHANGED agreement
  /\ UNCHANGED engine
  /\ UNCHANGED runtime

NextLedger ==
  \/ Startup
  \/ HandleConnBlock
  \/ HandleBlockMessages
  \/ HandleConnChain
  \/ HandleConnTx
  \/ HandleLocalTx
  \/ \E t \in Running : AddBlockLock(t)
  \/ \E t \in Running : Latest(t)
  \/ \E t \in Running : ReplaceChain(t)


\* ------------------------------------------------------------ agreement
\* signMessage over fmt.Sprintf("%s:%d:%d", hash, seq, view)
VoteText(hash, seq, view) == <<hash, seq, view>>

\* PrepareMsg and CommitMsg have the same fields
VoteMsg(view, seq, hash, voter) ==
  [View |-> view, Seq |-> seq, Hash |-> hash, Voter |-> voter,
   Sig |-> Sign(voter, VoteText(hash, seq, view))]

VoteMsgs == {VoteMsg(v, s, h, w) : v \in Views, s \in Seqs, h \in Hashes, w \in Voters}

\* ":" + n.cfg.Port
Self == "v1"

RECURSIVE Orders(_)
Orders(S) ==
  IF S = {} THEN {<<>>}
  ELSE UNION {{<<x>> \o o : o \in Orders(S \ {x})} : x \in S}

\* getValidatorList: the file's list when it has entries, else the known peers
\* (in the order the map iteration happens to give)
getValidatorList == IF Len(validators) > 0 THEN {validators} ELSE Orders(peers)

\* a variant that rounds 2n/3 up where the handlers round down and add one
NeedRoundedUp(val) == (2 * Len(val) + 2) \div 3

\* (2*len(val))/3 + 1
Need(val) == (2 * Len(val)) \div 3 + 1

\* handleConn: n.addPeer(remote)
AddPeer ==
  /\ main = "serving"
  /\ \E a \in PeerAddrs : a \notin peers /\ peers' = peers \cup {a}
  /\ UNCHANGED <<ledger, validators, prepares, commits, sent, bridge, served>>
  /\ UNCHANGED engine
  /\ UNCHANGED runtime

\* the len(val) posts of one message
Posts(val, m) == [x \in {m} |-> Len(val)]

\* HandlePBFTPrepare once the body is decoded: store, count, post the Commit
OnPrepare(pm, val) ==
  LET after == [prepares EXCEPT ![pm.Seq] = Put(@, pm.Voter, pm)]
      cnt   == Cardinality(DOMAIN after[pm.Seq])
      cm    == VoteMsg(pm.View, pm.Seq, pm.Hash, Self)
  IN  /\ prepares' = after
      /\ sent' = IF cnt >= Need(val) /\ Len(val) > 0 THEN sent (+) Posts(val, cm) ELSE sent

HandlePBFTPrepare ==
  /\ main = "serving"
  /\ served < MaxVotes
  /\ \E pm \in VoteMsgs, val \in getValidatorList : OnPrepare(pm, val)
  /\ served' = served + 1
  /\ UNCHANGED <<ledger, validators, peers, commits, bridge>>
  /\ UNCHANGED engine
  /\ UNCHANGED runtime

\* HandlePBFTCommit once the body is decoded: store, count, notify the bridge
OnCommit(cm, val) ==
  LET after == [commits EXCEPT ![cm.Seq] = Put(@, cm.Voter, cm)]
      cnt   == Cardinality(DOMAIN after[cm.Seq])
  IN  /\ commits' = after
      /\ bridge' = IF cnt >= Need(val) THEN bridge (+) SetToBag({cm.Hash}) ELSE bridge

HandlePBFTCommit ==
  /\ main = "serving"
  /\ served < MaxVotes
  /\ \E cm \in VoteMsgs, val \in getValidatorList : OnCommit(cm, val)
  /\ served' = served + 1
  /\ UNCHANGED <<ledger, validators, peers, prepares, sent>>
  /\ UNCHANGED engine
  /\ UNCHANGED runtime

NextAgreement ==
  \/ HandlePBFTPrepare
  \/ HandlePBFTCommit

Next == NextLedger \/ NextAgreement \/ AddPeer

Spec == Init /\ [][Next]_vars

\* the ledger alone, and the agreement handlers alone on a node that serves
SpecLedger == Init /\ [][NextLedger]_vars

\* a node whose startup loaded a file holding the genesis block alone
Serving ==
  /\ main = "serving"
  /\ chain = <<GenesisBlock(0)>>
  /\ mu = FALSE
  /\ goroutines = EmptyBag
  /\ last = [op |-> "LoadFromFile", ok |-> TRUE, n |-> 0, b |-> NilBlock]
  /\ validators = Roster
  /\ peers = {}
  /\ prepares = [s \in Seqs |-> EmptyMap]
  /\ commits = [s \in Seqs |-> EmptyMap]
  /\ sent = EmptyBag
  /\ bridge = EmptyBag
  /\ served = 0
  /\ pbftSeq = 1
  /\ prePrepares = EmptyMap
  /\ proposing = EmptyBag
  /\ posted = EmptyBag
  /\ votesMap = EmptyMap
  /\ threads = EmptyBag
  /\ outbox = EmptyBag
  /\ files = NoFiles
  /\ net = NoNet

SpecAgreement == Serving /\ [][NextAgreement]_vars

\* ------------------------------------------------------------ /vote
\* a hex string: the bytes it spells, whether it spells them with A-F or a-f, and
\* whether it is hex at all
HexString(bytes, upper) == [bytes |-> bytes, upper |-> upper, hex |-> TRUE]
NotHex == [bytes |-> <<>>, upper |-> FALSE, hex |-> FALSE]

\* hex.DecodeString: <<err == nil, bytes>>; either case of a digit decodes alike
DecodeString(h) == IF h.hex THEN <<TRUE, h.bytes>> ELSE <<FALSE, <<>>>>

VoterKeys == {"k1", "k2"}
Rounds    == {0}

\* fmt.Sprintf("%s:%d", v.BlockHash, v.Round)
VoteRoundText(hash, round) == <<hash, round>>

Vote(hash, pub, sig, round) ==
  [BlockHash |-> hash, VoterPub |-> pub, Signature |-> sig, Round |-> round]

\* the votes a client can post: signed by the key voter_pub spells, signed by
\* another key, or with a signature that is no hex string
Votes ==
  {Vote(h, HexString(k, u), HexString(Sign(signer, VoteRoundText(h, r)), FALSE), r) :
     h \in Hashes, k \in VoterKeys, u \in BOOLEAN, signer \in VoterKeys, r \in Rounds}
  \cup {Vote(h, HexString(k, FALSE), NotHex, r) : h \in Hashes, k \in VoterKeys, r \in Rounds}

\* the rosters validators.json can hold
Rosters == {SubSeq(Roster, 1, n) : n \in 0..Len(Roster)}

\* HandleVote once the body is decoded
OnVote(v, val) ==
  LET pubb   == DecodeString(v.VoterPub)
      sigb   == DecodeString(v.Signature)
      msg    == VoteRoundText(v.BlockHash, v.Round)
      old    == IF v.BlockHash \in DOMAIN votesMap THEN votesMap[v.BlockHash] ELSE EmptyMap
      after  == Put(votesMap, v.BlockHash, Put(old, v.VoterPub, v))
      needed == Need(val)
      count  == Cardinality(DOMAIN after[v.BlockHash])
  IN  IF ~pubb[1] \/ ~sigb[1] \/ ~Verify(pubb[2], msg, sigb[2])
      THEN /\ last' = [op |-> "vote.rejected", ok |-> FALSE, n |-> 0, b |-> NilBlock]
           /\ UNCHANGED votesMap
      ELSE /\ votesMap' = after
           /\ last' = [op |-> "vote", ok |-> (count >= needed), n |-> count, b |-> NilBlock]

HandleVote ==
  /\ main = "serving"
  /\ \E v \in Votes, val \in getValidatorList : OnVote(v, val)
  /\ UNCHANGED <<main, chain, mu, goroutines>>
  /\ UNCHANGED agreement
  /\ UNCHANGED <<pbftSeq, prePrepares, proposing, posted>>
  /\ UNCHANGED runtime

\* a node that serves, with the roster r in validators.json
ServingWith(r) ==
  /\ main = "serving"
  /\ chain = <<GenesisBlock(0)>>
  /\ mu = FALSE
  /\ goroutines = EmptyBag
  /\ last = [op |-> "LoadFromFile", ok |-> TRUE, n |-> 0, b |-> NilBlock]
  /\ validators = r
  /\ peers = {}
  /\ prepares = [s \in Seqs |-> EmptyMap]
  /\ commits = [s \in Seqs |-> EmptyMap]
  /\ sent = EmptyBag
  /\ bridge = EmptyBag
  /\ served = 0
  /\ pbftSeq = 1
  /\ prePrepares = EmptyMap
  /\ proposing = EmptyBag
  /\ posted = EmptyBag
  /\ votesMap = EmptyMap
  /\ threads = EmptyBag
  /\ outbox = EmptyBag
  /\ files = NoFiles
  /\ net = NoNet

ServingAny == \E r \in Rosters : ServingWith(r)

NextVote ==
  \/ AddPeer
  \/ HandleVote

\* the /vote endpoint of a node with any roster and a growing peer set
SpecVote == ServingAny /\ [][NextVote]_vars

\* ------------------------------------------------------------ proposals
\* the names isLeaderFor takes for this node: my, "127.0.0.1"+my, "localhost"+my
SelfNames == {Self, "127.0.0.1v1", "localhostv1"}

\* a variant that rotates the leader with the view
isLeaderForRotatingView(vals, view, seq) ==
  IF Len(vals) = 0 THEN FALSE
  ELSE vals[((seq + view) % Len(vals)) + 1] \in SelfNames

\* isLeaderFor, on the list getValidatorList returned to it
isLeaderFor(vals, view, seq) ==
  IF Len(vals) = 0 THEN FALSE
  ELSE vals[(seq % Len(vals)) + 1] \in SelfNames

\* signMessage with keys/node_priv.hex in place
signMessage(msg) == Sign(Self, msg)

PrePrepare(view, seq, block, leader, sig) ==
  [View |-> view, Seq |-> seq, Block |-> block, Leader |-> leader, Sig |-> sig]

\* the blocks a proposal can carry: sealed on the genesis block, signed or not
ProposalBlocks ==
  {PeerBlock(GenesisBlock(0), k, d) : k \in {"good", "unsigned"}, d \in TxData}

ProposalSeqs == 1..MaxProposals

\* the PrePrepare requests another process can post to this node
PrePrepareMsgs ==
  {PrePrepare(pbftView, seq, b, "x", Sign("x", VoteText(b.Hash, seq, pbftView))) :
     seq \in ProposalSeqs, b \in ProposalBlocks}

\* a variant that leaves the counter as it is
NextSeqUnchanged(seq) == seq

\* pbftSeq++
NextSeq(seq) == seq + 1

\* proposeBlockToValidators up to pbftMu.Unlock(): seq := pbftSeq; pbftSeq++
Propose ==
  /\ main = "serving"
  /\ pbftSeq <= MaxProposals
  /\ \E b \in ProposalBlocks :
       proposing' = proposing (+) SetToBag({[seq |-> pbftSeq, view |-> pbftView, b |-> b]})
  /\ pbftSeq' = NextSeq(pbftSeq)
  /\ UNCHANGED <<prePrepares, posted, votesMap>>
  /\ UNCHANGED ledger
  /\ UNCHANGED agreement
  /\ UNCHANGED runtime

\* the rest of proposeBlockToValidators: sign, store, post to every validator.
\* Every post goes to http://127.0.0.1:8080/pbft/preprepare
ProposeSend(p) ==
  /\ \E val \in getValidatorList :
       LET pre == PrePrepare(p.view, p.seq, p.b, Self,
                             signMessage(VoteText(p.b.Hash, p.seq, p.view)))
       IN  /\ prePrepares' = Put(prePrepares, p.seq, pre)
           /\ posted' = IF Len(val) > 0 THEN posted (+) Posts(val, pre) ELSE posted
  /\ proposing' = proposing (-) SetToBag({p})
  /\ UNCHANGED <<pbftSeq, votesMap>>
  /\ UNCHANGED ledger
  /\ UNCHANGED agreement
  /\ UNCHANGED runtime

\* a variant that stores the record before it looks at the block
OnPrePrepareStoreFirst(pp, val, inbox) ==
  /\ prePrepares' = Put(prePrepares, pp.Seq, pp)
  /\ posted' = IF pp.Block = NilBlock \/ ~VerifyBlockSignature(pp.Block) \/ Len(val) = 0
               THEN inbox
               ELSE inbox (+) Posts(val, VoteMsg(pp.View, pp.Seq, pp.Block.Hash, Self))

\* HandlePBFTPrePrepare once the body is decoded; inbox is what is left to deliver
OnPrePrepare(pp, val, inbox) ==
  IF pp.Block = NilBlock \/ ~VerifyBlockSignature(pp.Block)
  THEN /\ posted' = inbox
       /\ UNCHANGED prePrepares
  ELSE LET prep == VoteMsg(pp.View, pp.Seq, pp.Block.Hash, Self)
       IN  /\ prePrepares' = Put(prePrepares, pp.Seq, pp)
           /\ posted' = IF Len(val) > 0 THEN inbox (+) Posts(val, prep) ELSE inbox

IsPrePrepare(m) == "Block" \in DOMAIN m

\* /pbft/preprepare served for a post of this node (127.0.0.1:8080 is this node)
\* or for a request of another process
HandlePBFTPrePrepare ==
  /\ main = "serving"
  /\ \E val \in getValidatorList :
       \/ /\ \E pp \in {m \in BagToSet(posted) : IsPrePrepare(m)} :
               OnPrePrepare(pp, val, posted (-) SetToBag({pp}))
          /\ UNCHANGED served
       \/ /\ served < MaxInjected
          /\ \E pp \in PrePrepareMsgs : OnPrePrepare(pp, val, posted)
          /\ served' = served + 1
  /\ UNCHANGED <<pbftSeq, proposing, votesMap>>
  /\ UNCHANGED ledger
  /\ UNCHANGED <<validators, peers, prepares, commits, sent, bridge>>
  /\ UNCHANGED runtime

\* /pbft/prepare served for a post of this node
LoopbackPrepare ==
  /\ main = "serving"
  /\ \E pm \in {m \in BagToSet(posted) : ~IsPrePrepare(m)}, val \in getValidatorList :
       /\ OnPrepare(pm, val)
       /\ posted' = posted (-) SetToBag({pm})
  /\ UNCHANGED <<pbftSeq, prePrepares, proposing, votesMap>>
  /\ UNCHANGED ledger
  /\ UNCHANGED <<validators, peers, commits, bridge, served>>
  /\ UNCHANGED runtime

\* /pbft/commit served for a post of this node
LoopbackCommit ==
  /\ main = "serving"
  /\ \E cm \in BagToSet(sent), val \in getValidatorList :
       /\ OnCommit(cm, val)
       /\ sent' = sent (-) SetToBag({cm})
  /\ UNCHANGED engine
  /\ UNCHANGED ledger
  /\ UNCHANGED <<validators, peers, prepares, served>>
  /\ UNCHANGED runtime

NextProposal ==
  \/ Propose
  \/ \E p \in BagToSet(proposing) : ProposeSend(p)
  \/ HandlePBFTPrePrepare
  \/ LoopbackPrepare
  \/ LoopbackCommit

\* a serving node with any roster and room for every proposal's votes
ServingProposals ==
  /\ validators \in Rosters
  /\ main = "serving"
  /\ chain = <<GenesisBlock(0)>>
  /\ mu = FALSE
  /\ goroutines = EmptyBag
  /\ last = [op |-> "LoadFromFile", ok |-> TRUE, n |-> 0, b |-> NilBlock]
  /\ peers = {}
  /\ prepares = [s \in ProposalSeqs |-> EmptyMap]
  /\ commits = [s \in ProposalSeqs |-> EmptyMap]
  /\ sent = EmptyBag
  /\ bridge = EmptyBag
  /\ served = 0
  /\ pbftSeq = 1
  /\ prePrepares = EmptyMap
  /\ proposing = EmptyBag
  /\ posted = EmptyBag
  /\ votesMap = EmptyMap
  /\ threads = EmptyBag
  /\ outbox = EmptyBag
  /\ files = NoFiles
  /\ net = NoNet

\* the agreement round of validators that all run this node: what a node posts
\* reaches the node itself and nobody else
SpecProposal == ServingProposals /\ [][NextProposal]_vars

\* the calls of proposeBlockToValidators alone
NextAllocate ==
  \/ Propose
  \/ \E p \in BagToSet(proposing) : ProposeSend(p)

SpecAllocate == ServingProposals /\ [][NextAllocate]_vars

\* every goroutine that can run does run, and every post is served
FairProposal ==
  /\ SpecProposal
  /\ WF_vars(\E p \in BagToSet(proposing) : ProposeSend(p))
  /\ WF_vars(HandlePBFTPrePrepare /\ served' = served)
  /\ WF_vars(LoopbackPrepare)
  /\ WF_vars(LoopbackCommit)

\* ------------------------------------------------------------ leader
LeaderSeqs  == 0..MaxLeaderSeq
LeaderViews == 0..MaxView

\* a call n.isLeaderFor(view, seq); the answer is what the caller sees
CheckLeader ==
  /\ main = "serving"
  /\ \E view \in LeaderViews, seq \in LeaderSeqs, vals \in getValidatorList :
       last' = [op |-> "isLeaderFor", ok |-> isLeaderFor(vals, view, seq), n |-> seq,
                b |-> NilBlock]
  /\ UNCHANGED <<main, chain, mu, goroutines>>
  /\ UNCHANGED agreement
  /\ UNCHANGED engine
  /\ UNCHANGED runtime

NextLeader ==
  \/ AddPeer
  \/ CheckLeader

\* the leader check on a node with any roster and a growing peer set
SpecLeader == ServingAny /\ [][NextLeader]_vars

\* ------------------------------------------------------------ thresholds
\* votes of three validators for one hash, and one vote that carries no signature
QuorumMsgs ==
  {VoteMsg(pbftView, 1, "h1", w) : w \in {"v1", "v2", "v3"}} \cup
  {[VoteMsg(pbftView, 1, "h1", "v4") EXCEPT !.Sig = EmptyStr]}

QuorumVotes ==
  {Vote("h1", HexString(k, FALSE), HexString(Sign(k, VoteRoundText("h1", 0)), FALSE), 0) :
     k \in {"k1", "k2", "k3"}}

\* /pbft/prepare, /pbft/commit and /vote served for these requests
ServePrepare ==
  /\ main = "serving"
  /\ served < MaxVotes
  /\ \E pm \in QuorumMsgs, val \in getValidatorList : OnPrepare(pm, val)
  /\ served' = served + 1
  /\ UNCHANGED <<ledger, validators, peers, commits, bridge>>
  /\ UNCHANGED engine
  /\ UNCHANGED runtime

ServeCommit ==
  /\ main = "serving"
  /\ served < MaxVotes
  /\ \E cm \in QuorumMsgs, val \in getValidatorList : OnCommit(cm, val)
  /\ served' = served + 1
  /\ UNCHANGED <<ledger, validators, peers, prepares, sent>>
  /\ UNCHANGED engine
  /\ UNCHANGED runtime

ServeVote ==
  /\ main = "serving"
  /\ served < MaxVotes
  /\ \E v \in QuorumVotes, val \in getValidatorList : OnVote(v, val)
  /\ served' = served + 1
  /\ UNCHANGED <<main, chain, mu, goroutines>>
  /\ UNCHANGED <<validators, peers, prepares, commits, sent, bridge>>
  /\ UNCHANGED <<pbftSeq, prePrepares, proposing, posted>>
  /\ UNCHANGED runtime

NextQuorum ==
  \/ AddPeer
  \/ ServePrepare
  \/ ServeCommit
  \/ ServeVote

\* the three vote handlers on a node with any roster and a growing peer set
SpecQuorum == ServingAny /\ [][NextQuorum]_vars

\* ------------------------------------------------------------ /pbft/preprepare
\* the bodies /pbft/preprepare can be sent: any view and sequence, a block that
\* is sealed and signed, unsigned, signed over another digest, or no block
PrePrepareRequests ==
  {PrePrepare(view, seq, b, "x", Sign("x", VoteText(b.Hash, seq, view))) :
     view \in LeaderViews, seq \in ProposalSeqs,
     b \in {PeerBlock(GenesisBlock(0), k, d) : k \in {"good", "unsigned", "forged"}, d \in TxData}
             \cup {NilBlock}}

\* HandlePBFTPrePrepare with its response: 400 "bad block sig", or 200 {"ok":true}
ServePrePrepare ==
  /\ main = "serving"
  /\ served < MaxRequests
  /\ \E pp \in PrePrepareRequests, val \in getValidatorList :
       /\ OnPrePrepare(pp, val, posted)
       /\ last' = [op |-> "preprepare",
                   ok |-> ~(pp.Block = NilBlock \/ ~VerifyBlockSignature(pp.Block)),
                   n |-> pp.Seq, b |-> pp.Block]
  /\ served' = served + 1
  /\ UNCHANGED <<main, chain, mu, goroutines>>
  /\ UNCHANGED <<validators, peers, prepares, commits, sent, bridge>>
  /\ UNCHANGED <<pbftSeq, proposing, votesMap>>
  /\ UNCHANGED runtime

NextPrePrepare ==
  \/ AddPeer
  \/ ServePrePrepare

\* /pbft/preprepare on a node with any roster and a growing peer set
SpecPrePrepare == ServingAny /\ [][NextPrePrepare]_vars

\* ------------------------------------------------------------ locks
\* The handlers lock by lock: each is the sequence of the lock operations it
\* performs and of its reads and writes of shared objects, in program order.
\* The values read and written are followed by the specifications above.
Ins(do, on) == [do |-> do, on |-> on]

\* getPeerList: RLock, range over n.peers, deferred RUnlock
getPeerListCode ==
  <<Ins("rlock", "peersMu"), Ins("read", "peers"), Ins("runlock", "peersMu")>>

\* getValidatorList: the file's list, and getPeerList when it has no entries
getValidatorListCode(roster) == IF Len(roster) > 0 THEN <<>> ELSE getPeerListCode

\* Latest: RLock, read the tip, deferred RUnlock
LatestCode ==
  <<Ins("rlock", "bc.mu"), Ins("read", "chain"), Ins("runlock", "bc.mu")>>

Handlers ==
  {"HandlePBFTPrePrepare", "HandlePBFTPrepare", "HandlePBFTCommit", "HandleVote",
   "proposeBlockToValidators", "addPeer", "requestChain", "HandleGetChain",
   "ReplaceChain", "AddBlock", "SaveToFile"}

Code(op, roster) ==
  CASE op = "HandlePBFTPrePrepare" ->
         <<Ins("lock", "pbftMu"), Ins("write", "prePrepares"), Ins("write", "prepares"),
           Ins("unlock", "pbftMu")>> \o getValidatorListCode(roster)
    [] op = "HandlePBFTPrepare" ->
         <<Ins("lock", "pbftMu"), Ins("write", "prepares"), Ins("read", "prepares")>>
         \o getValidatorListCode(roster) \o <<Ins("unlock", "pbftMu")>>
    [] op = "HandlePBFTCommit" ->
         <<Ins("lock", "pbftMu"), Ins("write", "commits"), Ins("read", "commits")>>
         \o getValidatorListCode(roster) \o <<Ins("unlock", "pbftMu")>>
    [] op = "HandleVote" ->
         <<Ins("lock", "voteLock"), Ins("write", "votesMap")>>
         \o getValidatorListCode(roster)
         \o <<Ins("read", "votesMap"), Ins("unlock", "voteLock")>>
    [] op = "proposeBlockToValidators" ->
         <<Ins("lock", "pbftMu"), Ins("read", "pbftSeq"), Ins("write", "pbftSeq"),
           Ins("read", "pbftView"), Ins("unlock", "pbftMu"), Ins("write", "prePrepares")>>
         \o getValidatorListCode(roster)
    [] op = "addPeer" ->
         <<Ins("lock", "peersMu"), Ins("write", "peers"), Ins("unlock", "peersMu")>>
    [] op = "requestChain" ->
         <<Ins("read", "chain")>>
    [] op = "HandleGetChain" ->
         <<Ins("rlock", "bc.mu"), Ins("read", "chain"), Ins("runlock", "bc.mu")>>
    [] op = "ReplaceChain" ->
         <<Ins("lock", "bc.mu"), Ins("read", "chain"), Ins("write", "chain"),
           Ins("unlock", "bc.mu")>>
    [] op = "AddBlock" ->
         <<Ins("lock", "bc.mu")>> \o LatestCode
         \o <<Ins("write", "chain"), Ins("unlock", "bc.mu")>>
    [] op = "SaveToFile" ->
         <<Ins("rlock", "bc.mu"), Ins("read", "chain"), Ins("runlock", "bc.mu")>>

Thread(op, pc, held) == [op |-> op, pc |-> pc, held |-> held]

Threads == BagToSet(threads)

\* the instruction a goroutine executes next
NextIns(t) == Code(t.op, validators)[t.pc]

Exclusive(l) == <<l, "w">>
Shared(l)    == <<l, "r">>

HoldsAny(l)       == \E t \in Threads : Exclusive(l) \in t.held \/ Shared(l) \in t.held
HoldsExclusive(l) == \E t \in Threads : Exclusive(l) \in t.held

\* sync.Mutex.Lock and sync.RWMutex.Lock wait until nobody holds the lock, RLock
\* until nobody holds it exclusively; neither knows who the caller is
CanRun(t) ==
  CASE NextIns(t).do = "lock"  -> ~HoldsAny(NextIns(t).on)
    [] NextIns(t).do = "rlock" -> ~HoldsExclusive(NextIns(t).on)
    [] OTHER -> TRUE

HeldAfter(t) ==
  LET i == NextIns(t)
  IN  CASE i.do = "lock"    -> t.held \cup {Exclusive(i.on)}
        [] i.do = "rlock"   -> t.held \cup {Shared(i.on)}
        [] i.do = "unlock"  -> t.held \ {Exclusive(i.on)}
        [] i.do = "runlock" -> t.held \ {Shared(i.on)}
        [] OTHER -> t.held

\* a request, message or call starts a goroutine in a handler
Spawn ==
  /\ main = "serving"
  /\ BagCardinality(threads) < MaxGoroutines
  /\ \E op \in Handlers : threads' = threads (+) SetToBag({Thread(op, 1, {})})
  /\ UNCHANGED <<ledger, agreement, engine, outbox, files, net>>

\* a goroutine executes its next instruction, and ends after its last
Step(t) ==
  /\ CanRun(t)
  /\ LET u    == Thread(t.op, t.pc + 1, HeldAfter(t))
         rest == threads (-) SetToBag({t})
         next == IF t.pc = Len(Code(t.op, validators)) THEN rest ELSE rest (+) SetToBag({u})
     IN  /\ threads' = next
         /\ mu' = \E x \in BagToSet(rest (+) SetToBag({u})) : Exclusive("bc.mu") \in x.held
  /\ UNCHANGED <<main, chain, goroutines, last>>
  /\ UNCHANGED <<agreement, engine, outbox, files, net>>

NextLocks ==
  \/ Spawn
  \/ \E t \in Threads : Step(t)

\* the handlers of a node with any roster, lock by lock
SpecLocks == ServingAny /\ [][NextLocks]_vars

\* ------------------------------------------------------------ wire
\* a message body as it arrives: JSON that decodes to value, or bytes that do not
Body(valid, value) == [valid |-> valid, value |-> value]

\* json.Unmarshal(msg.Body, &x) with the error dropped: a body that does not
\* decode leaves x at its zero value
Unmarshal(body, zero) == IF body.valid THEN body.value ELSE zero

\* var b Block
ZeroBlock == [NilBlock EXCEPT !.Index = 0]

MalformedTypes == {"envelope", "peerList", "tx", "block", "chain"}

\* handleConn for a message whose envelope, or whose body, does not decode
HandleConnMalformed ==
  /\ Ready
  /\ \E type \in MalformedTypes, bridgeOk \in BOOLEAN :
       LET bad == Body(FALSE, <<>>)
           pl  == Unmarshal(bad, [Peers |-> <<>>])
           tx  == Unmarshal(bad, [Data |-> ""])
           b   == Unmarshal(bad, ZeroBlock)
       IN  CASE type = "envelope" ->
                  /\ last' = [op |-> "decode", ok |-> FALSE, n |-> 0, b |-> NilBlock]
                  /\ UNCHANGED <<goroutines, peers, outbox>>
             [] type = "peerList" ->
                  /\ BagCardinality(outbox) < MaxReplies
                  /\ peers' = peers \cup ({pl.Peers[i] : i \in 1..Len(pl.Peers)} \ {""})
                  /\ outbox' = outbox (+) SetToBag({WireMessage("peerList")})
                  /\ UNCHANGED <<goroutines, last>>
             [] type = "tx" ->
                  /\ goroutines' =
                       IF bridgeOk
                       THEN Go(Goroutine("AddBlock", "malformed",
                                         PeerBlock(LatestOf(chain), "unsigned", tx.Data), tx.Data))
                       ELSE Go(Goroutine("GenerateBlock", "malformed", NilBlock, tx.Data))
                  /\ UNCHANGED <<last, peers, outbox>>
             [] type = "block" ->
                  /\ IF VerifyBlockSignature(b)
                     THEN /\ goroutines' = Go(Goroutine("AddBlock", "malformed", b, ""))
                          /\ UNCHANGED last
                     ELSE /\ last' = [op |-> "block", ok |-> FALSE, n |-> 0, b |-> b]
                          /\ UNCHANGED goroutines
                  /\ UNCHANGED <<peers, outbox>>
             [] type = "chain" ->
                  /\ goroutines' = Go(Goroutine("ReplaceChain", "malformed", NilBlock, ""))
                  /\ UNCHANGED <<last, peers, outbox>>
  /\ UNCHANGED <<main, chain, mu>>
  /\ UNCHANGED <<validators, prepares, commits, sent, bridge, served>>
  /\ UNCHANGED engine
  /\ UNCHANGED <<threads, files, net>>

\* the hex of a public key that is not ed25519.PublicKeySize bytes long, and of a
\* signature that is not ed25519.SignatureSize bytes long
ShortKey == "00"
ShortSig == <<"00">>

\* ed25519.Verify panics when len(publicKey) is not PublicKeySize; it is reached
\* when both fields are present (and are hex)
VerifyBlockSignaturePanics(b) ==
  b.Signature # EmptyStr /\ b.PubKey # "" /\ b.PubKey = ShortKey

\* the blocks a peer crafts on the tip: a key, or a signature, of a wrong length
CraftedBlocks(prev) ==
  {[PeerBlock(prev, "good", d) EXCEPT !.PubKey = ShortKey] : d \in TxData} \cup
  {[PeerBlock(prev, "good", d) EXCEPT !.Signature = ShortSig] : d \in TxData}

\* handleConn and handleBlockMessages for a crafted block, handleConn for a chain
\* with a null entry.  A panic in a goroutine nobody recovers ends the process
HandleConnCrafted ==
  /\ Ready
  /\ \/ \E b \in CraftedBlocks(LatestOf(chain)), via \in {"block", "gossipBlock"} :
          IF VerifyBlockSignaturePanics(b)
          THEN /\ main' = "exited"
               /\ goroutines' = EmptyBag
               /\ last' = [op |-> "panic", ok |-> FALSE, n |-> 0, b |-> b]
          ELSE IF VerifyBlockSignature(b)
          THEN /\ goroutines' = Go(Goroutine("AddBlock", via, b, ""))
               /\ UNCHANGED <<main, last>>
          ELSE /\ last' = [op |-> via, ok |-> FALSE, n |-> 0, b |-> b]
               /\ UNCHANGED <<main, goroutines>>
     \/ /\ goroutines' = Go(Goroutine("ReplaceChain", "nullChain", NilBlock, ""))
        /\ UNCHANGED <<main, last>>
  /\ UNCHANGED <<chain, mu>>
  /\ UNCHANGED agreement
  /\ UNCHANGED engine
  /\ UNCHANGED runtime

NextWire ==
  \/ NextLedger
  \/ HandleConnMalformed
  \/ HandleConnCrafted

\* the ledger and its handlers, with peers that also send what does not decode
\* and what is made to break the node
SpecWire == Init /\ [][NextWire]_vars

\* ------------------------------------------------------------ chain_store.json
\* the blocks a stored chain can hold and LoadFromFile does not look into:
\* signed or not, sealed to the difficulty or not
StoredKinds == {"good", "unsigned", "unmined"}

RECURSIVE StoredChains(_)
StoredChains(n) ==
  IF n <= 1 THEN {<<GenesisBlock(0)>>}
  ELSE LET shorter == StoredChains(n - 1)
       IN  shorter \cup
           {Append(c, PeerBlock(c[Len(c)], k, d)) :
              c \in {s \in shorter : Len(s) = n - 1}, k \in StoredKinds, d \in TxData}

\* the array with one field of the block at position i changed on disk
Altered(arr, i, field) ==
  [arr EXCEPT ![i] =
     CASE field = "data"      -> [@ EXCEPT !.Data = "altered"]
       [] field = "prev_hash" -> [@ EXCEPT !.PrevHash = JunkHash]
       [] field = "hash"      -> [@ EXCEPT !.Hash = JunkHash]]

BlockFields == {"data", "prev_hash", "hash"}

\* a file of the array arr, whole or cut short
Stored(arr, whole) == [exists |-> TRUE, arr |-> arr, whole |-> whole]

\* what chain_store.json can be at startup: absent, cut short, an empty array, a
\* chain as it was saved, or one with one or two blocks changed since
StoredFiles ==
  {NoFile, Stored(<<>>, TRUE)} \cup
  {Stored(c, w) : c \in StoredChains(MaxFile), w \in BOOLEAN} \cup
  {Stored(Altered(c, i, f), TRUE) :
     c \in StoredChains(MaxFile), i \in 1..MaxFile, f \in BlockFields} \cup
  {Stored(Altered(Altered(c, i, f), j, "data"), TRUE) :
     c \in StoredChains(MaxFile), i \in 1..MaxFile, j \in 1..MaxFile, f \in BlockFields}

\* NewNode, in a directory that holds some chain_store.json
Booting ==
  /\ main = "boot"
  /\ \E t \in Times : chain = CreateGenesis(<<>>, t)
  /\ mu = FALSE
  /\ goroutines = EmptyBag
  /\ last = NoCall
  /\ validators = Roster
  /\ peers = {}
  /\ prepares = [s \in Seqs |-> EmptyMap]
  /\ commits = [s \in Seqs |-> EmptyMap]
  /\ sent = EmptyBag
  /\ bridge = EmptyBag
  /\ served = 0
  /\ pbftSeq = 1
  /\ prePrepares = EmptyMap
  /\ proposing = EmptyBag
  /\ posted = EmptyBag
  /\ votesMap = EmptyMap
  /\ threads = EmptyBag
  /\ outbox = EmptyBag
  /\ \E f \in StoredFiles : files = [store |-> f, tmp |-> NoFile]
  /\ net = NoNet

\* main: node.LoadChainFromFile("chain_store.json"), up to its return
LoadFromFile ==
  /\ main = "boot"
  /\ ~mu
  /\ LET r == LoadFromFileBody(chain, files.store)
     IN  /\ chain' = r[2]
         /\ last' = [op |-> "LoadFromFile", ok |-> (r[1] = 0), n |-> r[1], b |-> NilBlock]
  /\ main' = "loaded"
  /\ UNCHANGED <<mu, goroutines>>
  /\ UNCHANGED agreement
  /\ UNCHANGED engine
  /\ UNCHANGED runtime

\* main: node.bc.CreateGenesis() when LoadChainFromFile returned an error
RecoverGenesis ==
  /\ main = "loaded"
  /\ \E t \in Times : chain' = IF last.ok THEN chain ELSE CreateGenesis(chain, t)
  /\ main' = "serving"
  /\ UNCHANGED <<mu, goroutines, last>>
  /\ UNCHANGED agreement
  /\ UNCHANGED engine
  /\ UNCHANGED runtime

NextLoad ==
  \/ LoadFromFile
  \/ RecoverGenesis

\* startup, file by file
SpecLoad == Booting /\ [][NextLoad]_vars

\* ------------------------------------------------------------ SaveToFile
\* a call of SaveToFile: where it is, the bytes it marshalled, and where the
\* file it opened is now ("tmp": still fn + ".tmp"; "store": renamed to fn by
\* another call; "gone": replaced, no name left; "": not opened yet)
Saver(pc, bts, fd) == [op |-> "SaveToFile", pc |-> pc, bts |-> bts, fd |-> fd]

Savers == BagToSet(threads)

Become(t, u) == (threads (-) SetToBag({t})) (+) SetToBag({u})

\* os.Rename(tmp, fn) as the calls that have the file open see it
Moved(u) ==
  [u EXCEPT !.fd = IF @ = "tmp" THEN "store" ELSE IF @ = "store" THEN "gone" ELSE @]

\* SaveToFile: bc.mu.RLock(); json.MarshalIndent(bc.chain, "", "  ")
SaveRLock ==
  /\ main = "serving"
  /\ ~mu
  /\ BagCardinality(threads) < MaxGoroutines
  /\ threads' = threads (+) SetToBag({Saver("WriteFile.Open", chain, "")})
  /\ UNCHANGED <<outbox, files, net>>
  /\ UNCHANGED ledger
  /\ UNCHANGED agreement
  /\ UNCHANGED engine

\* ioutil.WriteFile(tmp, ...): OpenFile(tmp, O_WRONLY|O_CREATE|O_TRUNC, 0644)
SaveOpen(t) ==
  /\ t.pc = "WriteFile.Open"
  /\ files' = [files EXCEPT !.tmp = Stored(<<>>, FALSE)]
  /\ threads' = Become(t, [t EXCEPT !.pc = "WriteFile.Write", !.fd = "tmp"])
  /\ UNCHANGED <<outbox, net>>
  /\ UNCHANGED ledger
  /\ UNCHANGED agreement
  /\ UNCHANGED engine

\* ioutil.WriteFile(tmp, ...): f.Write(data); f.Close()
SaveWrite(t) ==
  /\ t.pc = "WriteFile.Write"
  /\ files' = CASE t.fd = "tmp"   -> [files EXCEPT !.tmp = Stored(t.bts, TRUE)]
                [] t.fd = "store" -> [files EXCEPT !.store = Stored(t.bts, TRUE)]
                [] OTHER          -> files
  /\ threads' = Become(t, [t EXCEPT !.pc = "Rename"])
  /\ UNCHANGED <<outbox, net>>
  /\ UNCHANGED ledger
  /\ UNCHANGED agreement
  /\ UNCHANGED engine

\* return os.Rename(tmp, fn), and the deferred bc.mu.RUnlock()
SaveRename(t) ==
  /\ t.pc = "Rename"
  /\ IF files.tmp.exists
     THEN /\ files' = [store |-> files.tmp, tmp |-> NoFile]
          /\ threads' = BagOfAll(Moved, threads (-) SetToBag({t}))
     ELSE /\ threads' = threads (-) SetToBag({t})
          /\ UNCHANGED files
  /\ UNCHANGED <<outbox, net>>
  /\ UNCHANGED ledger
  /\ UNCHANGED agreement
  /\ UNCHANGED engine

\* ReplaceChain's bc.mu.Lock() waits for every SaveToFile to RUnlock
SaveReplaceChain ==
  /\ threads = EmptyBag
  /\ \E t \in Running : ReplaceChain(t)

\* the process is killed, at any point
Crash ==
  /\ main = "serving"
  /\ main' = "exited"
  /\ goroutines' = EmptyBag
  /\ threads' = EmptyBag
  /\ UNCHANGED <<chain, mu, last, outbox, files, net>>
  /\ UNCHANGED agreement
  /\ UNCHANGED engine

NextSave ==
  \/ HandleConnChain
  \/ SaveReplaceChain
  \/ SaveRLock
  \/ \E t \in Savers : SaveOpen(t)
  \/ \E t \in Savers : SaveWrite(t)
  \/ \E t \in Savers : SaveRename(t)
  \/ Crash

\* the chain growing and being saved, by any number of calls at a time
SpecSave == Serving /\ [][NextSave]_vars

\* ------------------------------------------------------------ shutdown
\* main: <-sigChan
Signal ==
  /\ main = "serving"
  /\ main' = "saving"
  /\ UNCHANGED <<chain, mu, goroutines, last>>
  /\ UNCHANGED agreement
  /\ UNCHANGED engine
  /\ UNCHANGED runtime

\* Start: the accept loop is never left; handleConn, case "chain", for a
\* connection accepted after the signal
AcceptAfterSignal ==
  /\ main \in {"saving", "stopping"}
  /\ BagCardinality(goroutines) < MaxGoroutines
  /\ goroutines' = Go(Goroutine("ReplaceChain", "chain", NilBlock, ""))
  /\ UNCHANGED <<main, chain, mu, last>>
  /\ UNCHANGED agreement
  /\ UNCHANGED engine
  /\ UNCHANGED runtime

\* main: node.bc.SaveToFile("chain_store.json"), the whole call: the shared lock
\* is held from the marshalling to the rename
ShutdownSave ==
  /\ main = "saving"
  /\ ~mu
  /\ files' = [store |-> Stored(chain, TRUE), tmp |-> NoFile]
  /\ main' = "stopping"
  /\ UNCHANGED <<threads, outbox, net>>
  /\ UNCHANGED <<chain, mu, goroutines, last>>
  /\ UNCHANGED agreement
  /\ UNCHANGED engine

\* main: server.Shutdown(ctx), and the return from main
ShutdownExit ==
  /\ main = "stopping"
  /\ main' = "exited"
  /\ goroutines' = EmptyBag
  /\ UNCHANGED <<chain, mu, last>>
  /\ UNCHANGED agreement
  /\ UNCHANGED engine
  /\ UNCHANGED runtime

NextShutdown ==
  \/ HandleConnChain
  \/ \E t \in Running : ReplaceChain(t)
  \/ Signal
  \/ AcceptAfterSignal
  \/ ShutdownSave
  \/ ShutdownExit

\* a node that serves chain messages and is told to stop
SpecShutdown == Serving /\ [][NextShutdown]_vars

\* ------------------------------------------------------------ gossip and transport
\* a node whose keys/node_priv.hex is in place, served over both paths
NextGossip ==
  \/ HandleConnTxWith({TRUE})
  \/ HandleLocalTx
  \/ HandleConnBlock
  \/ HandleBlockMessages
  \/ HandleConnChain
  \/ \E t \in Running : AddBlockLock(t)
  \/ \E t \in Running : Latest(t)
  \/ \E t \in Running : ReplaceChain(t)

SpecGossip == Serving /\ [][NextGossip]_vars

\* ------------------------------------------------------------ restart
\* the process is started again: NewNode makes a fresh Blockchain with a genesis
\* block; the files are what the last run left
Restart ==
  /\ main = "exited"
  /\ main' = "boot"
  /\ \E t \in Times : chain' = CreateGenesis(<<>>, t)
  /\ mu' = FALSE
  /\ goroutines' = EmptyBag
  /\ last' = NoCall
  /\ UNCHANGED agreement
  /\ UNCHANGED engine
  /\ UNCHANGED runtime

NextRestart ==
  \/ LoadFromFile
  \/ RecoverGenesis
  \/ HandleConnChain
  \/ HandleLocalTx
  \/ \E t \in Running : AddBlockLock(t)
  \/ \E t \in Running : Latest(t)
  \/ \E t \in Running : ReplaceChain(t)
  \/ Signal
  \/ AcceptAfterSignal
  \/ ShutdownSave
  \/ ShutdownExit
  \/ Crash
  \/ Restart

\* runs of the node one after another, the first in a directory with no
\* chain_store.json
SpecRestart == Init /\ [][NextRestart]_vars

\* ------------------------------------------------------------ phases
\* the Prepare and Commit bodies validators can post about a sequence: for the
\* hash of a sealed block or for another hash, from three voters
PhaseMsgs ==
  {VoteMsg(pbftView, s, h, w) :
     s \in Seqs,
     h \in {PeerBlock(GenesisBlock(0), "good", d).Hash : d \in TxData} \cup {JunkHash},
     w \in {"v1", "v2", "v3"}}

\* /pbft/prepare and /pbft/commit served for these requests
PhasePrepare ==
  /\ main = "serving"
  /\ served < MaxVotes
  /\ \E pm \in PhaseMsgs, val \in getValidatorList : OnPrepare(pm, val)
  /\ served' = served + 1
  /\ UNCHANGED <<ledger, validators, peers, commits, bridge>>
  /\ UNCHANGED engine
  /\ UNCHANGED runtime

PhaseCommit ==
  /\ main = "serving"
  /\ served < MaxVotes
  /\ \E cm \in PhaseMsgs, val \in getValidatorList : OnCommit(cm, val)
  /\ served' = served + 1
  /\ UNCHANGED <<ledger, validators, peers, prepares, sent>>
  /\ UNCHANGED engine
  /\ UNCHANGED runtime

NextPhases ==
  \/ ServePrePrepare
  \/ PhasePrepare
  \/ PhaseCommit

\* the three /pbft handlers of a node with any roster, served in any order
SpecPhases == ServingAny /\ [][NextPhases]_vars

\* ------------------------------------------------------------ network
\* nodes that run this program and listen, and a peer that only sends
Nodes  == {"a", "b"}
Sender == "x"

\* conn.RemoteAddr() of a connection n dialled: n's host and a port of the moment
Eph(n) == n \o ":eph"

\* WireMessage with its body decoded
Message(type, peerSet, b, ch) == [Type |-> type, Peers |-> peerSet, Block |-> b, Chain |-> ch]

\* the goroutine in handleConn at one end of a connection: where it is, how far
\* in the block case, and the block or chain it has decoded
Reader(pc, k, b, ch) == [pc |-> pc, k |-> k, b |-> b, c |-> ch]

Reading    == Reader("read", 0, NilBlock, <<>>)
NotReading == Reader("closed", 0, NilBlock, <<>>)

\* a variant of the block case that broadcasts onward before it appends
BlockCaseRelayFirst == <<"broadcastBlock", "AddBlock">>

\* handleConn, case "block", once the signature is verified: AddBlock, and after
\* it has returned true, broadcastBlock
BlockCase == <<"AddBlock", "broadcastBlock">>

\* the reader after step k of the block case
Onward(h) ==
  IF h.k < Len(BlockCase) THEN Reader(BlockCase[h.k + 1], h.k + 1, h.b, <<>>) ELSE Reading

\* a connection: d and l are the readers at the dialler's and the listener's
\* end, up and down the messages written and not yet read
Conn(dialer, listener, d, up) ==
  [dialer |-> dialer, listener |-> listener, up |-> up, down |-> <<>>, d |-> d, l |-> Reading]

\* Start: ln.Accept(), go n.handleConn(conn), and its n.addPeer(remote)
Open(nt, c) ==
  [nt EXCEPT !.conns = Append(@, c), !.peers[c.listener] = @ \cup {Eph(c.dialer)}]

RECURSIVE OpenAll(_, _)
OpenAll(nt, cs) == IF cs = <<>> THEN nt ELSE OpenAll(Open(nt, Head(cs)), Tail(cs))

\* the peers of n a dial reaches: the addresses nodes listen on
Reachable(nt, n) == nt.peers[n] \cap Nodes

\* broadcastBlock: one connection per peer, the block written, the connection closed
broadcastBlock(nt, n, b) ==
  LET order == CHOOSE o \in Orders(Reachable(nt, n)) : TRUE
      cs    == [j \in 1..Len(order) |->
                  Conn(n, order[j], NotReading, <<Message("block", {}, b, <<>>)>>)]
  IN  OpenAll([nt EXCEPT !.relayed[n] = @ (+) SetToBag({b})], cs)

\* the chain the sending peer holds, and the blocks it broadcasts: its tip
\* (which does not extend a chain of one block), and a block that is not signed
SenderChain ==
  LET b1 == PeerBlock(GenesisBlock(0), "good", "tx")
  IN  <<GenesisBlock(0), b1, PeerBlock(b1, "good", "tx")>>

SenderBlocks == {SenderChain[3], PeerBlock(SenderChain[2], "unsigned", "tx")}

\* the chains a node starts with: the genesis block, or what its file held
StartChains == {<<GenesisBlock(0)>>, SubSeq(SenderChain, 1, 2)}

\* nodes after startup, each with the peers of its configuration
Networked ==
  /\ main = "serving"
  /\ chain = <<GenesisBlock(0)>>
  /\ mu = FALSE
  /\ goroutines = EmptyBag
  /\ last = NoCall
  /\ validators = Roster
  /\ peers = {}
  /\ prepares = [s \in Seqs |-> EmptyMap]
  /\ commits = [s \in Seqs |-> EmptyMap]
  /\ sent = EmptyBag
  /\ bridge = EmptyBag
  /\ served = 0
  /\ pbftSeq = 1
  /\ prePrepares = EmptyMap
  /\ proposing = EmptyBag
  /\ posted = EmptyBag
  /\ votesMap = EmptyMap
  /\ threads = EmptyBag
  /\ outbox = EmptyBag
  /\ files = NoFiles
  /\ \E cfg \in [Nodes -> SUBSET Nodes], chains \in [Nodes -> StartChains] :
       /\ \A n \in Nodes : n \notin cfg[n]
       /\ net = [cfg |-> cfg, peers |-> cfg, chain |-> chains,
                 mu |-> [n \in Nodes |-> FALSE], conns |-> <<>>,
                 relayed |-> [n \in Nodes |-> EmptyBag]]

\* connectToInitialPeers, connectAndHandshake: dial a configured peer, write the
\* peer list and requestChain, then read the connection in handleConn
ConnectAndHandshake(n, p) ==
  /\ p \in net.cfg[n]
  /\ Len(net.conns) < MaxConns
  /\ \A i \in DOMAIN net.conns :
       ~(net.conns[i].dialer = n /\ net.conns[i].listener = p)
  /\ net' = Open(net, Conn(n, p, Reading,
                           <<Message("peerList", net.peers[n], NilBlock, <<>>),
                             Message("requestChain", {}, NilBlock, <<>>)>>))
  /\ UNCHANGED <<ledger, agreement, engine, threads, outbox, files>>

\* a peer's broadcastBlock reaches node p: a connection that carries one block
PeerBroadcast(p, b) ==
  /\ Len(net.conns) < MaxConns
  /\ net' = Open(net, Conn(Sender, p, NotReading, <<Message("block", {}, b, <<>>)>>))
  /\ UNCHANGED <<ledger, agreement, engine, threads, outbox, files>>

\* one step of the goroutine in handleConn at one end of connection i: a message
\* decoded and handled up to the next lock, or a lock taken
Run(i, side) ==
  /\ i \in DOMAIN net.conns
  /\ LET c    == net.conns[i]
         n    == IF side = "l" THEN c.listener ELSE c.dialer
         h    == c[side]
         far  == IF side = "l" THEN c.d ELSE c.l
         inq  == IF side = "l" THEN c.up ELSE c.down
         rest == IF side = "l" THEN [c EXCEPT !.up = Tail(@)] ELSE [c EXCEPT !.down = Tail(@)]
         At(cc, r) == [cc EXCEPT ![side] = r]
         Reply(cc, m) ==
           IF far.pc = "closed" THEN cc
           ELSE IF side = "l" THEN [cc EXCEPT !.down = Append(@, m)]
           ELSE [cc EXCEPT !.up = Append(@, m)]
     IN  CASE h.pc = "read" /\ inq # <<>> ->
                LET m == Head(inq)
                IN  (CASE m.Type = "peerList" ->
                           net' = [net EXCEPT
                                     !.peers[n] = @ \cup m.Peers,
                                     !.conns[i] = Reply(rest, Message("peerList",
                                                    net.peers[n] \cup m.Peers, NilBlock, <<>>))]
                      [] m.Type = "requestChain" ->
                           net' = [net EXCEPT
                                     !.conns[i] = Reply(rest, Message("chain", {}, NilBlock,
                                                                      net.chain[n]))]
                      [] m.Type = "chain" ->
                           net' = [net EXCEPT
                                     !.conns[i] = At(rest, Reader("ReplaceChain", 0, NilBlock,
                                                                  m.Chain))]
                      [] m.Type = "block" ->
                           net' = [net EXCEPT
                                     !.conns[i] = IF VerifyBlockSignature(m.Block)
                                                  THEN At(rest, Onward(Reader("read", 0, m.Block, <<>>)))
                                                  ELSE rest])
           [] h.pc = "read" /\ inq = <<>> /\ far.pc = "closed" ->
                net' = [net EXCEPT !.conns[i] = At(c, NotReading)]
           [] h.pc = "ReplaceChain" /\ ~net.mu[n] ->
                net' = [net EXCEPT !.chain[n] = ReplaceChainBody(@, h.c)[2],
                                   !.conns[i] = At(c, Reading)]
           [] h.pc = "AddBlock" /\ ~net.mu[n] ->
                net' = [net EXCEPT !.mu[n] = TRUE,
                                   !.conns[i] = At(c, [h EXCEPT !.pc = "AddBlock.Latest"])]
           [] h.pc = "AddBlock.Latest" /\ ~net.mu[n] ->
                LET r == AddBlockBody(net.chain[n], h.b)
                IN  net' = [net EXCEPT
                              !.chain[n] = r[2],
                              !.mu[n] = FALSE,
                              !.conns[i] =
                                IF r[1] THEN At(c, Onward(h))
                                ELSE Reply(At(c, Reading),
                                           Message("requestChain", {}, NilBlock, <<>>))]
           [] /\ h.pc = "broadcastBlock"
              /\ Len(net.conns) + Cardinality(Reachable(net, n)) <= MaxConns ->
                net' = broadcastBlock([net EXCEPT !.conns[i] = At(c, Onward(h))], n, h.b)
           [] OTHER -> FALSE
  /\ UNCHANGED <<ledger, agreement, engine, threads, outbox, files>>

Sides == {"d", "l"}

NextPeers ==
  \/ \E n \in Nodes, p \in Nodes : ConnectAndHandshake(n, p)
  \/ \E i \in 1..MaxConns, side \in Sides : Run(i, side)

\* nodes that dial the peers of their configuration and read what arrives
SpecPeers == Networked /\ [][NextPeers]_vars

NextBlocks ==
  \/ \E p \in Nodes, b \in SenderBlocks : PeerBroadcast(p, b)
  \/ \E i \in 1..MaxConns, side \in Sides : Run(i, side)

\* nodes that are sent blocks by a peer
SpecBlocks == Networked /\ [][NextBlocks]_vars


\* every goroutine in handleConn that can take a step is scheduled
ReadersRun == \A i \in 1..MaxConns, side \in Sides : WF_vars(Run(i, side))

FairPeers == SpecPeers /\ ReadersRun

FairBlocks == SpecBlocks /\ ReadersRun

\* the Go scheduler runs every goroutine that can run, and sync.RWMutex hands the
\* lock to every goroutine that keeps asking for it
FairLedger ==
  /\ SpecLedger
  /\ SF_vars(\E t \in Running : AddBlockLock(t))
  /\ SF_vars(\E t \in Running : Latest(t))
  /\ SF_vars(\E t \in Running : ReplaceChain(t))

\* ------------------------------------------------------------ properties
\* PubKey and Signature are present and Signature is the ed25519 signature, under
\* PubKey, of the digest recomputed from the block's fields
ValidSignature(b) ==
  /\ b.PubKey # ""
  /\ b.Signature # EmptyStr
  /\ b.Signature = Sign(b.PubKey, <<b.Index, b.Timestamp, b.Data, b.PrevHash, b.Nonce>>)

\* b passes the three checks of AddBlock against the tip of ch
Extends(ch, b) ==
  /\ Len(ch) > 0
  /\ b.Index = ch[Len(ch)].Index + 1
  /\ b.PrevHash = ch[Len(ch)].Hash
  /\ b.Hash = calculateHash(b)

\* number of positions of ch that hold b
Occurrences(ch, b) == Cardinality({i \in 1..Len(ch) : ch[i] = b})

\* the call of some goroutine holds the ledger's lock inside AddBlock
InAddBlock(t) == t.pc = "AddBlock.Latest"

\* C1: in every reachable state, every position i > 0 of the chain has
\* chain[i].PrevHash = chain[i-1].Hash and a Hash that is the digest recomputed
\* from the block's own fields.
C1_HashChained ==
  \A i \in 2..Len(chain) :
    /\ chain[i].PrevHash = chain[i-1].Hash
    /\ calculateHash(chain[i]) = chain[i].Hash

\* C2: in every reachable state the indices of the chain are contiguous:
\* chain[i].Index = chain[i-1].Index + 1 for every i > 0, whichever operation
\* (genesis, AddBlock, ReplaceChain, LoadFromFile) produced the chain.
C2_IndexContiguous ==
  \A i \in 2..Len(chain) : chain[i].Index = chain[i-1].Index + 1

\* C3: a call of AddBlock(b) that has taken the lock can return, and returns
\* false with the chain unchanged when b fails one of the three checks against
\* the tip, and true with b appended otherwise.
C3_AddBlockDecides ==
  \A t \in Running :
    InAddBlock(t) =>
      ENABLED ( /\ Latest(t)
                /\ last'.op = "AddBlock"
                /\ last'.ok = Extends(chain, t.b)
                /\ chain' = IF Extends(chain, t.b) THEN Append(chain, t.b) ELSE chain )

\* C4: every call of AddBlock returns: a goroutine that has taken the lock in
\* AddBlock eventually releases it.
C4_AddBlockReturns == (\E t \in Running : InAddBlock(t)) ~> (mu = FALSE)

\* C5: ReplaceChain never replaces the chain by a candidate that is not strictly
\* longer, a ReplaceChain that returns false leaves the chain unchanged, and the
\* chain of a serving node never gets shorter.
C5_Step ==
  /\ main = "serving" => Len(chain') >= Len(chain)
  /\ \A t \in Running :
       t.pc = "ReplaceChain" /\ goroutines' = Exit(t) =>
         /\ last'.op = "ReplaceChain"
         /\ last'.n <= Len(chain) => ~last'.ok
         /\ ~last'.ok => chain' = chain
         /\ last'.ok => Len(chain') = last'.n /\ Len(chain') > Len(chain)

C5_ReplaceChainOnlyLonger == [][C5_Step]_vars

\* a ReplaceChain has just refused a candidate exactly as long as the chain
C5_Witness ==
  /\ last.op = "ReplaceChain"
  /\ ~last.ok
  /\ last.n = Len(chain)
  /\ Len(chain) > 1

\* C6: when the same valid signed block reaches the node over the transport and
\* over gossip, the chain ends up holding it exactly once.
DeliverableBlocks ==
  {PeerBlock(c[Len(c)], "good", d) : c \in Candidates \cup {<<GenesisBlock(0), GenesisBlock(0)>>},
                                     d \in TxData}

DeliveredTwice(b) ==
  /\ ValidSignature(b)
  /\ Extends(chain, b)
  /\ \E t, u \in Running : /\ t.via = "block" /\ t.b = b
                           /\ u.via = "gossipBlock" /\ u.b = b

C6_DeliveredTwiceHeldOnce ==
  \A b \in DeliverableBlocks :
    DeliveredTwice(b) ~> (Running = {} /\ Occurrences(chain, b) = 1)

\* C7: a block that arrives in a `block` message or a gossip block message with
\* an empty or invalid signature is never handed to AddBlock, and handling it
\* changes neither the chain nor the lock nor the calls in progress.
C7_Step ==
  /\ \A t \in BagToSet(goroutines') :
       t.via \in {"block", "gossipBlock"} => ValidSignature(t.b)
  /\ \A via \in {"block", "gossipBlock"} :
       last' # last /\ last'.op = via =>
         /\ ~ValidSignature(last'.b)
         /\ chain' = chain /\ mu' = mu /\ goroutines' = goroutines
  /\ \A i \in 1..Len(chain') :
       (\E t \in Running : t.via \in {"block", "gossipBlock"} /\ t.b = chain'[i]) =>
         (ValidSignature(chain'[i]) \/ \E j \in 1..Len(chain) : chain[j] = chain'[i])

C7_BadSignatureNeverAdded == [][C7_Step]_vars

\* a block that extends the tip but carries no signature has just been refused,
\* and a forged one can be refused the same way
C7_Witness ==
  /\ last.op = "block"
  /\ last.b.Signature = EmptyStr
  /\ Extends(chain, last.b)
  /\ Occurrences(chain, last.b) = 0
  /\ ~ValidSignature(PeerBlock(LatestOf(chain), "forged", "tx"))

\* C8: after the node has adopted a peer's chain through ReplaceChain, every
\* block of the chain that a peer sealed carries a signature that verifies.
C8_AdoptedBlocksSigned ==
  last.op = "ReplaceChain" /\ last.ok =>
    \A i \in 2..Len(chain) : ValidSignature(chain[i])

\* C9: every non-genesis block of the chain has a Hash that begins with
\* `difficulty` zero nibbles, also after ReplaceChain has adopted a peer's chain.
C9_ProofOfWork ==
  last.op = "ReplaceChain" /\ last.ok =>
    \A i \in 2..Len(chain) : HasZeroPrefix(chain[i].Hash)

\* C10: the node notifies the bridge of a commit only when, for some sequence
\* number, it holds Prepare votes from a quorum of distinct voters and Commit
\* votes from a quorum of distinct voters.
Quorum == (2 * Len(Roster)) \div 3 + 1

C10_CommitNeedsBothQuorums ==
  bridge # EmptyBag =>
    \E s \in Seqs : /\ Cardinality(DOMAIN prepares[s]) >= Quorum
                    /\ Cardinality(DOMAIN commits[s]) >= Quorum

\* C11: repeated votes of one voter never increase a count: for every sequence
\* and every block hash, the Prepare count, the Commit count and the vote count
\* are the number of distinct voters recorded (a voter of /vote is the ed25519
\* key its voter_pub spells).
C11_CountsDistinctVoters ==
  /\ \A h \in DOMAIN votesMap :
       Cardinality(DOMAIN votesMap[h]) =
         Cardinality({DecodeString(p)[2] : p \in DOMAIN votesMap[h]})
  /\ \A s \in DOMAIN prepares :
       Cardinality(DOMAIN prepares[s]) =
         Cardinality({prepares[s][v].Voter : v \in DOMAIN prepares[s]})
  /\ \A s \in DOMAIN commits :
       Cardinality(DOMAIN commits[s]) =
         Cardinality({commits[s][v].Voter : v \in DOMAIN commits[s]})

\* C12: votes for different block hashes at one (view, sequence) never combine:
\* the node posts a Commit for hash h only when a quorum of distinct voters has
\* sent Prepare for that same h, view and sequence, and notifies the bridge of h
\* only when a quorum of distinct voters has sent Commit for that same h.
VotersFor(m, view, seq, hash) ==
  {v \in DOMAIN m[seq] : m[seq][v].Hash = hash /\ m[seq][v].View = view}

C12_Step ==
  /\ \A cm \in BagToSet(sent') :
       CopiesIn(cm, sent') > CopiesIn(cm, sent) =>
         Cardinality(VotersFor(prepares', cm.View, cm.Seq, cm.Hash)) >= Quorum
  /\ \A h \in BagToSet(bridge') :
       CopiesIn(h, bridge') > CopiesIn(h, bridge) =>
         \E s \in DOMAIN commits', view \in Views :
           Cardinality(VotersFor(commits', view, s, h)) >= Quorum

C12_VotesPerHash == [][C12_Step]_vars

\* C13: finality is unique per sequence: the hashes the bridge has been notified
\* of are at most one for each sequence that has reached the Commit quorum.
C13_FinalityUnique ==
  Cardinality(BagToSet(bridge)) <=
    Cardinality({s \in DOMAIN commits : Cardinality(DOMAIN commits[s]) >= Quorum})

\* the leader of sequence s under the configured roster: roster[s mod n]
LeaderOf(s) == Roster[(s % Len(Roster)) + 1]

C16_OnlyLeaderProposes ==
  validators = Roster =>
    /\ \A m \in {x \in BagToSet(posted) : IsPrePrepare(x)} :
         m.Leader = Self => LeaderOf(m.Seq) = Self
    /\ \A s \in DOMAIN prePrepares : prePrepares[s].Leader = LeaderOf(s)

\* C17: every proposal gets its own sequence number: the number a call of
\* proposeBlockToValidators allocates is greater than every number allocated
\* before, no two calls in progress hold the same number, and the counter is
\* left above the number allocated.
C17_Step ==
  /\ pbftSeq' >= pbftSeq
  /\ \A p \in BagToSet(proposing') :
       CopiesIn(p, proposing') > CopiesIn(p, proposing) =>
         /\ CopiesIn(p, proposing') = 1
         /\ \A q \in BagToSet(proposing) : q.seq < p.seq
         /\ \A m \in {x \in BagToSet(posted) : IsPrePrepare(x)} :
              m.Leader = Self => m.Seq < p.seq
         /\ p.seq >= pbftSeq
         /\ p.seq < pbftSeq'

C17_ProposalsGetOwnSeq == [][C17_Step]_vars

\* two calls are in progress at once, each with its own number
C17_Witness ==
  /\ BagCardinality(proposing) = 2
  /\ \E p, q \in BagToSet(proposing) : p.seq < q.seq /\ q.seq < pbftSeq

\* C15: with a roster of n > 0 validators configured, the leader of sequence s
\* is roster[s mod n]: every leader check for s answers whether that entry names
\* this node, whatever the view, the peer set and the earlier calls.
C15_Step ==
  (last'.op = "isLeaderFor" /\ Len(validators) > 0) =>
    last'.ok = (validators[(last'.n % Len(validators)) + 1] \in {Self, "127.0.0.1v1", "localhostv1"})

C15_LeaderIsRosterEntry == [][C15_Step]_vars

\* a check for a sequence that has wrapped around the roster answered yes, on a
\* node whose peer set has grown
C15_Witness ==
  /\ last.op = "isLeaderFor"
  /\ last.ok
  /\ Len(validators) > 1
  /\ last.n >= Len(validators)
  /\ peers # {}

\* the size the threshold is computed from: the roster, or the peer set when no
\* roster is configured
RosterSize == IF Len(validators) > 0 THEN Len(validators) ELSE Cardinality(peers)

\* floor(2n/3) + 1: the q with 3(q-1) <= 2n < 3q
FloorQuorum(n) == CHOOSE q \in 1..(n + 1) : 3 * (q - 1) <= 2 * n /\ 2 * n < 3 * q

\* C18: the prepare, commit and vote handlers use the threshold floor(2n/3)+1,
\* n the size of the configured roster, or of the peer set when none is
\* configured: a handler acts on a count exactly when the count has reached it.
C18_Step ==
  LET q == FloorQuorum(RosterSize)
  IN  /\ sent' # sent => \E s \in DOMAIN prepares' : Cardinality(DOMAIN prepares'[s]) >= q
      /\ \A s \in DOMAIN prepares :
           (prepares'[s] # prepares[s] /\ RosterSize > 0) =>
             ((Cardinality(DOMAIN prepares'[s]) >= q) <=> (sent' # sent))
      /\ \A s \in DOMAIN commits :
           commits'[s] # commits[s] =>
             ((Cardinality(DOMAIN commits'[s]) >= q) <=> (bridge' # bridge))
      /\ bridge' # bridge => \E s \in DOMAIN commits' : Cardinality(DOMAIN commits'[s]) >= q
      /\ \A h \in DOMAIN votesMap' :
           (h \notin DOMAIN votesMap \/ votesMap'[h] # votesMap[h]) =>
             /\ last'.op = "vote"
             /\ last'.n = Cardinality(DOMAIN votesMap'[h])
             /\ last'.ok = (last'.n >= q)

C18_ThresholdIsFloorPlusOne == [][C18_Step]_vars

\* with 3 validators, two Prepare votes have posted no Commit, and of three
\* Commit votes the third alone has notified the bridge
C18_Witness ==
  /\ Len(validators) = 3
  /\ Cardinality(DOMAIN prepares[1]) = 2
  /\ sent = EmptyBag
  /\ Cardinality(DOMAIN commits[1]) = 3
  /\ BagCardinality(bridge) = 1

\* C19: every vote is verified before it counts: every Prepare and Commit the
\* node has recorded carries a signature that verifies for its voter over the
\* text built from its hash, sequence and view, and every vote in the vote table
\* carries a signature that verifies for the key its voter_pub spells.
C19_VotesVerified ==
  /\ \A s \in DOMAIN prepares : \A v \in DOMAIN prepares[s] :
       LET m == prepares[s][v] IN m.Sig = Sign(m.Voter, <<m.Hash, m.Seq, m.View>>)
  /\ \A s \in DOMAIN commits : \A v \in DOMAIN commits[s] :
       LET m == commits[s][v] IN m.Sig = Sign(m.Voter, <<m.Hash, m.Seq, m.View>>)
  /\ \A h \in DOMAIN votesMap : \A p \in DOMAIN votesMap[h] :
       LET m == votesMap[h][p]
       IN  m.Signature.hex /\ m.Signature.bytes = Sign(p.bytes, <<m.BlockHash, m.Round>>)

\* C20: votes are counted against the roster only: the count a handler compares
\* with the threshold, the number of voters recorded for the sequence, counts
\* members of the roster and nobody else.
RosterSet == {Roster[i] : i \in 1..Len(Roster)}

C20_OnlyRosterVotesCount ==
  /\ \A s \in DOMAIN prepares :
       Cardinality(DOMAIN prepares[s]) = Cardinality(DOMAIN prepares[s] \cap RosterSet)
  /\ \A s \in DOMAIN commits :
       Cardinality(DOMAIN commits[s]) = Cardinality(DOMAIN commits[s] \cap RosterSet)

\* C21: a PrePrepare whose block is missing or whose block signature does not
\* verify is answered with an error and changes nothing: no record is stored,
\* the prepare and commit sets stay as they are, no Prepare is posted.  A
\* PrePrepare with a validly signed block is stored under its sequence, and the
\* Prepare posted to the validators names this node, the block's hash, the
\* sequence and the view of the stored record.
C21_Step ==
  (last'.op = "preprepare" /\ served' = served + 1) =>
    LET b      == last'.b
        s      == last'.n
        answer == posted' (-) posted
    IN  IF b # NilBlock /\ ValidSignature(b)
        THEN /\ last'.ok
             /\ s \in DOMAIN prePrepares'
             /\ prePrepares'[s].Block = b
             /\ prePrepares'[s].Seq = s
             /\ \A x \in DOMAIN prePrepares : x # s => prePrepares'[x] = prePrepares[x]
             /\ Len(validators) > 0 => BagCardinality(answer) = Len(validators)
             /\ \A m \in BagToSet(answer) :
                  /\ ~IsPrePrepare(m)
                  /\ m.Hash = b.Hash
                  /\ m.Seq = s
                  /\ m.View = prePrepares'[s].View
                  /\ m.Voter = Self
        ELSE /\ ~last'.ok
             /\ prePrepares' = prePrepares
             /\ prepares' = prepares
             /\ commits' = commits
             /\ posted' = posted
             /\ sent' = sent

C21_PrePrepareChecked == [][C21_Step]_vars

\* a PrePrepare with a forged block signature has just been refused for a
\* sequence whose stored record and Prepare posts come from an earlier valid one
C21_Witness ==
  /\ last.op = "preprepare"
  /\ ~last.ok
  /\ last.b # NilBlock
  /\ last.b.Signature # EmptyStr
  /\ last.n \in DOMAIN prePrepares
  /\ ValidSignature(prePrepares[last.n].Block)
  /\ posted # EmptyBag

\* the lock domain of a lock: the ledger, the peer set, the agreement and vote
\* records
LockDomain(l) ==
  CASE l = "bc.mu" -> "ledger"
    [] l = "peersMu" -> "peers"
    [] OTHER -> "agreement"

\* C22: no code path holds locks of two different domains at the same time, and
\* no interleaving of the handlers reaches a deadlock: whenever goroutines are
\* inside handlers, one of them can go on.
C22_OneDomainNoDeadlock ==
  /\ \A t \in Threads : Cardinality({LockDomain(l[1]) : l \in t.held}) <= 1
  /\ Threads # {} => \E t \in Threads : ENABLED Step(t)

\* the agreement state: the three maps and the two counters
AgreementObjects == {"prePrepares", "prepares", "commits", "pbftSeq", "pbftView"}

\* the goroutine's next instruction reads or writes one of the objects
Accesses(t, objects) == NextIns(t).do \in {"read", "write"} /\ NextIns(t).on \in objects

\* C23: every read and write of the agreement state (the pre-prepare, prepare
\* and commit maps, the sequence and view counters) is made by a goroutine that
\* holds the agreement mutex, so that no two goroutines are at the same map at
\* once.
C23_AgreementUnderMutex ==
  \A t \in Threads :
    Accesses(t, AgreementObjects) => Exclusive("pbftMu") \in t.held

\* C24: the chain is read only by a goroutine that holds the ledger's lock, and
\* written only by one that holds it exclusively: no handler reads the chain
\* while a writer is inside AddBlock or ReplaceChain.
C24_ChainUnderLock ==
  \A t \in Threads :
    Accesses(t, {"chain"}) =>
      /\ Exclusive("bc.mu") \in t.held \/ Shared("bc.mu") \in t.held
      /\ NextIns(t).do = "write" => Exclusive("bc.mu") \in t.held

\* a `tx` handler whose bridge call failed, or returned no accepted block, is at
\* the local sealing
FallbackPending ==
  \E t \in Running : t.via \in {"tx", "txSigned"} /\ t.pc = "GenerateBlock"

\* a `tx` handler has sealed a block on the current tip and is calling AddBlock
FallbackSealed ==
  \E t \in Running :
    /\ t.via \in {"tx", "txSigned"}
    /\ t.pc = "AddBlock"
    /\ Extends(chain, t.b)
    /\ HasZeroPrefix(t.b.Hash)

\* C25: when the bridge call for a transaction fails, the handler is not held
\* up: it seals a block on the current tip with GenerateBlock and goes on to
\* AddBlock, and the node keeps serving.
C25_BridgeFailureFallsBack ==
  /\ FallbackPending ~> FallbackSealed
  /\ [](FallbackPending => main = "serving")

\* C28: whenever the node receives a block from a peer and does not append it,
\* because the signature check fails or because AddBlock refuses it, the
\* handler sends requestChain.
C28_Step ==
  LET asked == outbox' = outbox (+) SetToBag({[Type |-> "requestChain"]})
  IN  /\ \A via \in {"block", "gossipBlock"} :
           (last' # last /\ last'.op = via /\ ~last'.ok) => asked
      /\ \A t \in Running :
           (t.via \in {"block", "gossipBlock"} /\ goroutines' = Exit(t) /\ ~last'.ok) => asked

C28_RefusedBlockAsksForChain == [][C28_Step]_vars

\* C26: a peer message that does not decode (envelope or body; tx, block, chain
\* and peerList alike) is rejected with no state change: handling it adds no
\* peer, asks nothing of the ledger but the length test ReplaceChain makes of an
\* empty chain, and the goroutine that handles it leaves the chain, the lock
\* and the agreement state as they were.
C26_Step ==
  /\ \A t \in BagToSet(goroutines') : t.via = "malformed" => t.pc = "ReplaceChain"
  /\ \A t \in Running :
       (t.via = "malformed" /\ CopiesIn(t, goroutines') < CopiesIn(t, goroutines)) =>
         /\ chain' = chain
         /\ mu' = mu
         /\ <<validators, peers, prepares, commits>> ' = <<validators, peers, prepares, commits>>
         /\ <<pbftSeq, prePrepares, votesMap>> ' = <<pbftSeq, prePrepares, votesMap>>
  /\ (last' # last /\ last'.op = "decode") => UNCHANGED <<chain, mu, goroutines, peers>>
  /\ CopiesIn([Type |-> "peerList"], outbox') > CopiesIn([Type |-> "peerList"], outbox)
       => peers' = peers

C26_MalformedRejected == [][C26_Step]_vars

\* C27: no message from a peer terminates the node process: whatever block,
\* chain, tx or peerList message arrives, with a null entry in a chain or a key
\* or signature of a wrong length in a block, the node goes on serving.
C27_NoMessageStopsTheNode == main # "exited"

\* the positions i > 0 (counted from 0, as the error message counts) at which a
\* stored array breaks: the link to the block before, or the block's own digest
BrokenAt(arr) ==
  {i \in 1..(Len(arr) - 1) :
     \/ arr[i + 1].PrevHash # arr[i].Hash
     \/ arr[i + 1].Hash # <<arr[i + 1].Index, arr[i + 1].Timestamp, arr[i + 1].Data,
                            arr[i + 1].PrevHash, arr[i + 1].Nonce>>}

\* C29: LoadFromFile on a file in which some block at position i > 0 has a
\* prev_hash that is not the hash of the block before, or a hash that is not the
\* digest of its own fields, returns an error that names the first such i and
\* leaves the chain in memory as it was; so it does for a file that is absent,
\* cannot be decoded, or holds an empty array.  Any other file is loaded.
C29_Step ==
  (main = "boot" /\ main' = "loaded") =>
    LET f == files.store
    IN  /\ last'.op = "LoadFromFile"
        /\ IF ~f.exists \/ ~f.whole \/ Len(f.arr) = 0
           THEN ~last'.ok /\ last'.n < 0 /\ chain' = chain
           ELSE IF BrokenAt(f.arr) # {}
           THEN /\ ~last'.ok
                /\ last'.n \in BrokenAt(f.arr)
                /\ \A i \in BrokenAt(f.arr) : last'.n <= i
                /\ chain' = chain
           ELSE last'.ok /\ chain' = f.arr

C29_LoadValidatesOrKeeps == [][C29_Step]_vars

\* Scenario C: of a stored chain of 5 blocks, block 3 has had its payload
\* changed; the load has failed at index 3 and the chain in memory is the one
\* NewNode made
C29_Witness ==
  /\ main = "loaded"
  /\ Len(files.store.arr) = 5
  /\ files.store.arr[4].Data = "altered"
  /\ last.op = "LoadFromFile"
  /\ ~last.ok
  /\ last.n = 3
  /\ chain = <<GenesisBlock(0)>>

\* C30: chain_store.json is written crash-safely: at every moment, also after
\* the process was killed at any step of SaveToFile and while several
\* SaveToFile calls run at once, the file, if it is there, holds one complete
\* chain as some call marshalled it, never a part of one.
C30_StoreAlwaysWhole ==
  files.store.exists => (files.store.whole /\ Len(files.store.arr) > 0)

\* C31: on a shutdown signal the node persists the chain before it exits, and
\* nothing changes the chain after that save: when the process has exited,
\* chain_store.json holds the chain that was in memory at the exit.
C31_SavedChainIsFinal ==
  main = "exited" => (files.store.exists /\ files.store.arr = chain)

\* the goroutines that hold the block a transaction was sealed into, by path
Sealed(vias) == {g \in Running : g.pc \in {"AddBlock", "AddBlock.Latest"} /\ g.via \in vias}

\* C32: the gossip subscriber applies the transport handler's logic: on a node
\* with a local key, the same transaction sealed on the same tip at the same
\* time gives the same block (signed) whether it came over the transport or
\* over the gossip topic.
C32_GossipAsTransport ==
  \A g \in Sealed({"tx", "txSigned"}), h \in Sealed({"gossipTx"}) :
    (g.data = h.data /\ g.b.PrevHash = h.b.PrevHash /\ g.b.Timestamp = h.b.Timestamp)
      => g.b = h.b

\* C33: restart preserves the ledger: whatever chain a run of the node saved at
\* its shutdown, beginning with the first run in a directory that has no chain
\* file, LoadFromFile accepts the file at the next start and the chain in
\* memory becomes the chain that was saved.
C33_Step ==
  (main = "boot" /\ main' = "loaded" /\ files.store.exists) =>
    (last'.ok /\ chain' = files.store.arr)

C33_RestartKeepsChain == [][C33_Step]_vars

\* how many copies of m a bag holds
Copies(bag, m) == IF m \in BagToSet(bag) THEN bag[m] ELSE 0

\* sequence s has Prepare votes from a quorum of the validators
PreparedFor(s) ==
  s \in DOMAIN prepares /\ Cardinality(DOMAIN prepares[s]) >= (2 * Len(validators)) \div 3 + 1

\* C34: the phases advance in order: the node posts a Commit for sequence s and
\* hash h only when it has accepted a PrePrepare for s whose block has hash h,
\* and it notifies the bridge of a commit only when some sequence is Prepared.
C34_Step ==
  /\ \A cm \in BagToSet(sent') :
       Copies(sent', cm) > Copies(sent, cm) =>
         (cm.Seq \in DOMAIN prePrepares /\ prePrepares[cm.Seq].Block.Hash = cm.Hash)
  /\ bridge' # bridge => \E s \in Seqs : PreparedFor(s)

C34_PhasesInOrder == [][C34_Step]_vars

\* the sequences the node holds votes of a kind for
Voted(votes) == {s \in DOMAIN votes : DOMAIN votes[s] # {}}

\* C35: for each sequence the node broadcasts its own Commit at most once (one
\* post per validator) and notifies the bridge at most once, whatever Prepare
\* and Commit messages keep arriving after the quorum.
C35_OneCommitPerSequence ==
  /\ BagCardinality(sent) <= Len(validators) * Cardinality(Voted(prepares))
  /\ BagCardinality(bridge) <= Cardinality(Voted(commits))

\* the goroutines that handle a transaction, from any of the three entries
Handling == {g \in Running : g.via \in {"tx", "txSigned", "gossipTx", "postTx"}}

\* how many of them there are, the bag's copies counted
HandlingCount == BagCardinality([g \in Handling |-> goroutines[g]])

\* the blocks of the chain that carry a transaction
Carrying == {i \in 2..Len(chain) : chain[i].Data \in TxData}

\* C38: no transaction is lost to a race: when two transactions are being
\* handled at the same time, each is sealed into a block of its own and both
\* blocks end up in the chain.
C38_BothTransactionsSealed ==
  (HandlingCount >= 2) ~> (Cardinality(Carrying) >= 2)


\* the messages of one type written to a connection and not yet read
InFlight(type) ==
  {<<i, q, k>> \in (DOMAIN net.conns) \X {"up", "down"} \X (1..(MaxConns + 2)) :
     /\ k <= Len(net.conns[i][q])
     /\ net.conns[i][q][k].Type = type}

\* C36: after the handshake, two connected nodes stop sending peer lists to each
\* other: from some point on no peerList message is in flight on any connection
C36_PeerListsQuiesce == <>[](InFlight("peerList") = {})


\* node n is behind: a goroutine in handleConn at n has verified the signature
\* of the sender's tip, and that block does not extend the tip of n's chain
Behind(n) ==
  \E i \in DOMAIN net.conns :
    /\ net.conns[i].dialer = Sender
    /\ net.conns[i].listener = n
    /\ net.conns[i].l.pc \in {"AddBlock", "AddBlock.Latest"}
    /\ net.conns[i].l.b = SenderChain[Len(SenderChain)]
    /\ net.conns[i].l.b.PrevHash # net.chain[n][Len(net.chain[n])].Hash

\* C37: a node that is behind and receives from a peer's broadcast a validly
\* signed block that does not extend its tip eventually holds a chain at least
\* as long as the sender's was
C37_ResyncCompletes ==
  \A n \in Nodes : Behind(n) ~> (Len(net.chain[n]) >= Len(SenderChain))


\* the times node n has broadcast block b onward
Relays(n, b) == CopiesIn(b, net.relayed[n])

\* the times block b stands in node n's chain
Appended(n, b) == Cardinality({k \in DOMAIN net.chain[n] : net.chain[n][k] = b})

AtMostOnce ==
  \A n \in Nodes, b \in SenderBlocks : Relays(n, b) <= 1 /\ Appended(n, b) <= 1

====
